---- MODULE Spec2Model ----
(***************************************************************************)
(* Extraction-consolidation pipeline of interview-to-user-stories:         *)
(* the ExtractionEngine's identifier assignment, the DeduplicationEngine   *)
(* and the ConsistencyChecker (src/worker/processors).                     *)
(*                                                                         *)
(* Representation.  A Python str is a sequence of one-character strings.   *)
(* A float score is an exact rational: scores that the code rounds to      *)
(* three decimals are integers in units of 1/1000, intermediate values     *)
(* are kept as numerator/denominator pairs.  An md5 digest is the tagged   *)
(* message it was computed from (no collisions).  A dict key that is       *)
(* absent is the value its .get() default gives where the code reads it.   *)
(***************************************************************************)
EXTENDS Integers, Sequences, FiniteSets, TLC

(***************************************************************************)
(* Bounds of the model.                                                    *)
(***************************************************************************)
MaxStories == 3
MaxDocuments == 2
MaxParagraphs == 2
MaxHashed == 2
MaxBatch == 3

VARIABLES
  similarity_threshold,  \* DeduplicationEngine.similarity_threshold, a rational
  float_tie_up,          \* the side on which the floats of decimal ties lie
  candidates,            \* the candidate stories collected for the job, in arrival order
  dedup_call,            \* the latest call into the engine: [op, args]
  unscored_stories,      \* deduplicate_and_score: its merged_stories before scoring
  dedup_result,          \* what the latest call returned
  first_scored           \* what the job's deduplicate_and_score over candidates returned

VARIABLES
  story_counter,         \* ExtractionEngine.story_counter
  gemini_model,          \* ExtractionEngine.gemini_model: TRUE when a model was initialised
  current_doc,           \* process_documents_with_ai: the document of the outer loop
  docs_started,          \* how many documents the outer loop has taken up
  paragraph_index,       \* the index i of the next paragraph of current_doc
  all_stories,           \* process_documents_with_ai: all_stories
  extract_call           \* the latest extract_story_from_text_with_context call:
                         \* [op, text, doc, index, counter, outcome, returned]

VARIABLES
  hash_input,            \* the documents, construct and stories handed to the hash functions
  hash_call              \* the latest hash call: [op, args, result]

VARIABLES
  cache,                 \* the cache directory: for each input hash the text of its file
  cache_writable,        \* whether a file of the cache directory can be opened for writing
  cons_call,             \* the latest call into the checker: [op, input_hash, output_stories, result],
                         \* or [op, input_hash, output_stories, raised] when the call raised
  jobs                   \* the jobs inside get_consistency_report: [pc, output_stories, cache_file, consistency_result]

VARIABLES
  environ,               \* os.environ: the VECTORIZE_* settings that are set
  blobs,                 \* the texts uploaded for the job, in list_blobs order
  embedding_model,       \* VectorProcessor.embedding_model: TRUE when Vertex AI was initialised
  provider_up,           \* whether get_embeddings answers (TRUE) or raises (FALSE)
  storage_up,            \* whether uploads to the results bucket succeed
  job_pc,                \* process_job: the statement the job is at
  job_ref,               \* the job's Firestore document: [status]
  job_documents,         \* process_job: documents
  decision,              \* the latest result of _should_vectorize
  vectorized_chunks,     \* process_documents_with_ai: vectorized_chunks
  processed_docs,        \* process_documents_with_ai: processed_docs
  user_stories,          \* process_job: user_stories
  job_log,               \* the stages the job has run, in order
  \* VectorProcessor, retrieval of context (vector_processor.py)
  context_call,          \* the latest call of a method of the processor: [op, ...]
  context_result         \* the list of chunks that call returned

dedup_vars == <<similarity_threshold, float_tie_up, candidates, dedup_call, unscored_stories,
                dedup_result, first_scored>>

extract_vars == <<story_counter, gemini_model, current_doc, docs_started, paragraph_index,
                  all_stories, extract_call>>

hash_vars == <<hash_input, hash_call>>

consistency_vars == <<cache, cache_writable, cons_call, jobs>>

worker_vars == <<environ, blobs, embedding_model, provider_up, storage_up, job_pc, job_ref,
                 job_documents, decision, vectorized_chunks, processed_docs, user_stories, job_log>>

context_vars == <<context_call, context_result>>

vars == <<dedup_vars, extract_vars, hash_vars, consistency_vars, worker_vars, context_vars>>

(***************************************************************************)
(* Generic helpers on sequences.                                           *)
(***************************************************************************)
Range(s) == {s[i] : i \in DOMAIN s}

\* a list comprehension: the list with its elements computed
List(f) == SubSeq(f, 1, Len(f))

\* a dict comprehension: the dict with its values computed
Dict(f) == f @@ <<>>

RECURSIVE SortIdx(_, _)
\* indices of S ordered by ascending key, equal keys in index order
\* (Python's sorted()/list.sort() is stable)
SortIdx(keys, S) ==
  IF S = {} THEN <<>>
  ELSE LET m == CHOOSE i \in S :
                  \A j \in S : keys[i] < keys[j] \/ (keys[i] = keys[j] /\ i <= j)
       IN  <<m>> \o SortIdx(keys, S \ {m})

StableSort(seq, keys) ==
  LET idx == SortIdx(keys, DOMAIN seq)
  IN  List([k \in 1..Len(seq) |-> seq[idx[k]]])

RECURSIVE SetToSortedSeq(_)
\* sorted(list(set(xs))) for a set of integers
SetToSortedSeq(S) ==
  IF S = {} THEN <<>>
  ELSE LET m == CHOOSE x \in S : \A y \in S : x <= y
       IN  <<m>> \o SetToSortedSeq(S \ {m})

RECURSIVE SumSeq(_)
SumSeq(s) == IF s = <<>> THEN 0 ELSE Head(s) + SumSeq(Tail(s))

RECURSIVE Flatten(_)
Flatten(ss) == IF ss = <<>> THEN <<>> ELSE Head(ss) \o Flatten(Tail(ss))

(***************************************************************************)
(* Python str operations used by the processors.                           *)
(***************************************************************************)
UpperLetters == <<"A","B","C","D","E","F","G","H","I","J","K","L","M",
                  "N","O","P","Q","R","S","T","U","V","W","X","Y","Z">>
LowerLetters == <<"a","b","c","d","e","f","g","h","i","j","k","l","m",
                  "n","o","p","q","r","s","t","u","v","w","x","y","z">>

\* str.lower() on one character
LowerChar(c) ==
  IF \E i \in 1..26 : UpperLetters[i] = c
  THEN LowerLetters[CHOOSE i \in 1..26 : UpperLetters[i] = c]
  ELSE c

StrLower(text) == List([i \in 1..Len(text) |-> LowerChar(text[i])])

\* regex classes \w and \s
IsWordChar(c) == c \in Range(UpperLetters) \cup Range(LowerLetters) \cup {"0","1","2","3","4","5","6","7","8","9"} \cup {"_"}
IsSpace(c) == c \in {" ", "\n", "\t"}

\* the maximal runs of text over the positions i with inside[i], from left
\* to right
RunsOf(text, inside) ==
  LET n == Len(text)
      starts == SetToSortedSeq({i \in 1..n : inside[i] /\ (i = 1 \/ ~inside[i - 1])})
      ends == SetToSortedSeq({i \in 1..n : inside[i] /\ (i = n \/ ~inside[i + 1])})
  IN  List([k \in 1..Len(starts) |-> SubSeq(text, starts[k], ends[k])])

\* str.split(): the maximal runs of non-whitespace
StrSplit(text) == RunsOf(text, List([i \in 1..Len(text) |-> ~IsSpace(text[i])]))

\* str.split('.'): the pieces between the dots, empty pieces kept
StrSplitDot(text) ==
  LET dots == SetToSortedSeq({i \in DOMAIN text : text[i] = "."})
      cuts == <<0>> \o dots \o <<Len(text) + 1>>
  IN  List([k \in 1..(Len(dots) + 1) |-> SubSeq(text, cuts[k] + 1, cuts[k + 1] - 1)])

RECURSIVE StrJoin(_, _)
\* sep.join(parts)
StrJoin(sep, parts) ==
  IF parts = <<>> THEN <<>>
  ELSE IF Len(parts) = 1 THEN parts[1]
  ELSE parts[1] \o sep \o StrJoin(sep, Tail(parts))

\* str.lstrip(): from the first character that is no whitespace on
LStrip(text) ==
  LET kept == {i \in DOMAIN text : ~IsSpace(text[i])}
  IN  IF kept = {} THEN <<>>
      ELSE SubSeq(text, CHOOSE i \in kept : \A j \in kept : i <= j, Len(text))

\* str.rstrip(): up to the last character that is no whitespace
RStrip(text) ==
  LET kept == {i \in DOMAIN text : ~IsSpace(text[i])}
  IN  IF kept = {} THEN <<>>
      ELSE SubSeq(text, 1, CHOOSE i \in kept : \A j \in kept : i >= j)

\* str.strip()
StrStrip(text) == RStrip(LStrip(text))

\* the Python test  sub in text
IsSubstring(sub, text) ==
  \E i \in 0..(Len(text) - Len(sub)) : SubSeq(text, i + 1, i + Len(sub)) = sub

\* code points in ascending order, as far as the model's strings use them
CharOrder == <<"\t", "\n", " ", ",", "-", ".", "0","1","2","3","4","5","6","7","8","9", ":">>
             \o UpperLetters \o <<"_">> \o LowerLetters \o <<"|">>

Ord(c) == CHOOSE i \in DOMAIN CharOrder : CharOrder[i] = c

\* the Python comparison  a < b  of two str: decided by the first position
\* where they differ, and by the lengths where one is a prefix of the other
StrLess(a, b) ==
  LET differ == {i \in DOMAIN a \cap DOMAIN b : a[i] # b[i]}
      first == CHOOSE i \in differ : \A j \in differ : i <= j
  IN  IF differ = {} THEN Len(a) < Len(b)
      ELSE Ord(a[first]) < Ord(b[first])

\* sort keys that order a list of str as Python orders it
StrRanks(strs) ==
  List([i \in DOMAIN strs |-> Cardinality({j \in DOMAIN strs : StrLess(strs[j], strs[i])})])

\* sorted(strs) for a list of str
SortedStrs(strs) == StableSort(strs, StrRanks(strs))

\* sorted(list(set(strs)))
RECURSIVE SortedStrSet(_)
SortedStrSet(S) ==
  IF S = {} THEN <<>>
  ELSE LET m == CHOOSE x \in S : \A y \in S : x = y \/ StrLess(x, y)
       IN  <<m>> \o SortedStrSet(S \ {m})

(***************************************************************************)
(* Python dict operations.  A dict is a function from its keys.            *)
(***************************************************************************)
\* d.get(key, default)
Get(d, key, default) == IF key \in DOMAIN d THEN d[key] ELSE default

\* d[key] = value (on a copy)
Put(d, key, value) == (key :> value) @@ d

\* hashlib.md5(message).hexdigest(): the digest stands for its message
MD5(message) == <<"md5", message>>

(***************************************************************************)
(* Exact rationals <<numerator, denominator>> for the float ratios.        *)
(***************************************************************************)
Zero == <<0, 1>>
One == <<1, 1>>

RECURSIVE ISqrtIn(_, _, _)
\* the largest r in lo..hi with r*r <= n
ISqrtIn(n, lo, hi) ==
  IF lo >= hi THEN lo
  ELSE LET mid == (lo + hi + 1) \div 2
       IN  IF mid * mid <= n THEN ISqrtIn(n, mid, hi) ELSE ISqrtIn(n, lo, mid - 1)

(***************************************************************************)
(* DeduplicationEngine (src/worker/processors/deduplication.py).           *)
(***************************************************************************)
filler_words ==
  { <<"t","h","e">>, <<"a">>, <<"a","n">>, <<"a","n","d">>, <<"o","r">>,
    <<"b","u","t">>, <<"i","n">>, <<"o","n">>, <<"a","t">>, <<"t","o">>,
    <<"f","o","r">>, <<"o","f">>, <<"w","i","t","h">>, <<"b","y">> }

\* _normalize_text: lower-case, punctuation to blanks, whitespace collapsed
\* and stripped, filler words dropped
NormalizeText(text) ==
  IF text = <<>> THEN <<>>
  ELSE LET lowered == StrLower(text)
           nopunct == List([i \in 1..Len(lowered) |->
                         IF IsWordChar(lowered[i]) \/ IsSpace(lowered[i])
                         THEN lowered[i] ELSE " "])
           collapsed == StrJoin(<<" ">>, StrSplit(nopunct))
           words == SelectSeq(StrSplit(collapsed), LAMBDA w : w \notin filler_words)
       IN  StrJoin(<<" ">>, words)

\* _clean_stories: each story copied with its three comparison keys
\* if '<field>' in story: cleaned_story['<clean_field>'] = self._normalize_text(...)
WithClean(story, field, clean_field) ==
  IF field \in DOMAIN story
  THEN Put(story, clean_field, NormalizeText(story[field]))
  ELSE story

CleanStory(story) ==
  WithClean(WithClean(WithClean(story, "User Story", "clean_text"),
                      "Capability", "clean_capability"),
            "Snippet", "clean_snippet")

CleanStories(stories) == List([i \in 1..Len(stories) |-> CleanStory(stories[i])])

\* _calculate_text_similarity: Jaccard index of the two word sets
CalculateTextSimilarity(story1, story2) ==
  LET text1 == Get(story1, "clean_text", <<>>)
      text2 == Get(story2, "clean_text", <<>>)
      words1 == Range(StrSplit(text1))
      words2 == Range(StrSplit(text2))
  IN  IF text1 = <<>> \/ text2 = <<>> THEN Zero
      ELSE IF words1 = {} \/ words2 = {} THEN Zero
      ELSE <<Cardinality(words1 \cap words2), Cardinality(words1 \cup words2)>>

(***************************************************************************)
(* difflib.SequenceMatcher(None, a, b).ratio(): Ratcliff/Obershelp.  The   *)
(* longest common block, earliest in a and then earliest in b, then the    *)
(* same to its left and to its right; ratio = 2 * matches / (|a| + |b|).   *)
(* (The autojunk heuristic applies only from 200 characters on.)           *)
(***************************************************************************)
\* length of the common block starting at a[i], b[j] inside the windows
BlockLen(a, i, ahi, b, j, bhi) ==
  LET room == IF ahi - i <= bhi - j THEN ahi - i + 1 ELSE bhi - j + 1
      differ == {k \in 0..(room - 1) : a[i + k] # b[j + k]}
  IN  IF room <= 0 THEN 0
      ELSE IF differ = {} THEN room
      ELSE CHOOSE k \in differ : \A m \in differ : k <= m

\* the longest block of lens, earliest in a and then earliest in b
EarliestLongest(lens, alo, ahi, blo, bhi) ==
  LET k == CHOOSE n \in Range(lens) : \A p \in DOMAIN lens : lens[p] <= n
      i == CHOOSE x \in alo..ahi :
             /\ \E y \in blo..bhi : lens[<<x, y>>] = k
             /\ \A x2 \in alo..(x - 1) : \A y \in blo..bhi : lens[<<x2, y>>] # k
      j == CHOOSE y \in blo..bhi :
             /\ lens[<<i, y>>] = k
             /\ \A y2 \in blo..(y - 1) : lens[<<i, y2>>] # k
  IN  <<i, j, k>>

FindLongestMatch(a, alo, ahi, b, blo, bhi) ==
  IF alo > ahi \/ blo > bhi THEN <<alo, blo, 0>>
  ELSE EarliestLongest(Dict([p \in (alo..ahi) \X (blo..bhi) |-> BlockLen(a, p[1], ahi, b, p[2], bhi)]),
                       alo, ahi, blo, bhi)

RECURSIVE MatchingChars(_, _, _, _, _, _)
MatchingChars(a, alo, ahi, b, blo, bhi) ==
  IF alo > ahi \/ blo > bhi THEN 0
  ELSE LET m == FindLongestMatch(a, alo, ahi, b, blo, bhi)
       IN  IF m[3] = 0 THEN 0
           ELSE m[3] + MatchingChars(a, alo, m[1] - 1, b, blo, m[2] - 1)
                     + MatchingChars(a, m[1] + m[3], ahi, b, m[2] + m[3], bhi)

SequenceMatcherRatio(a, b) ==
  IF Len(a) + Len(b) = 0 THEN One
  ELSE <<2 * MatchingChars(a, 1, Len(a), b, 1, Len(b)), Len(a) + Len(b)>>

\* _calculate_capability_similarity
CalculateCapabilitySimilarity(story1, story2) ==
  LET cap1 == Get(story1, "clean_capability", <<>>)
      cap2 == Get(story2, "clean_capability", <<>>)
  IN  IF cap1 = <<>> \/ cap2 = <<>> THEN Zero
      ELSE SequenceMatcherRatio(cap1, cap2)

(***************************************************************************)
(* sklearn TfidfVectorizer(stop_words='english', ngram_range=(1, 2))       *)
(* fitted on the two texts of one pair, then cosine_similarity of the two  *)
(* rows.  Tokens are the runs of two or more word characters that are no   *)
(* stop word; terms are the tokens and the pairs of adjacent tokens; a     *)
(* term's weight is tf * idf with idf = ln(3 / (1 + df)) + 1, that is 1    *)
(* for a term of both texts and 1 + ln 1.5 for a term of one text.  The    *)
(* cosine is exact where it is 0 or 1 and truncated to 1/1000 elsewhere.   *)
(***************************************************************************)
\* an excerpt of sklearn's ENGLISH_STOP_WORDS (two letters and more)
ENGLISH_STOP_WORDS ==
  { <<"a","s">>, <<"s","o">>, <<"i","s">>, <<"t","h","a","t">>, <<"b","e">>,
    <<"w","e">>, <<"i","t">>, <<"i","f">>, <<"m","y">>, <<"n","o">>,
    <<"e","v","e","r","y">>, <<"s","y","s","t","e","m">> }

\* the maximal runs of word characters
WordRuns(text) == RunsOf(text, List([i \in 1..Len(text) |-> IsWordChar(text[i])]))

TfidfTokens(text) ==
  SelectSeq(WordRuns(StrLower(text)),
            LAMBDA w : Len(w) >= 2 /\ w \notin ENGLISH_STOP_WORDS)

\* the unigrams, then the bigrams
NGrams(toks) ==
  IF toks = <<>> THEN <<>>
  ELSE [i \in 1..Len(toks) |-> <<toks[i]>>]
       \o [i \in 1..(Len(toks) - 1) |-> <<toks[i], toks[i + 1]>>]

TfidfTerms(text) == NGrams(TfidfTokens(text))

RECURSIVE SumFn(_, _)
SumFn(f, S) ==
  IF S = {} THEN 0
  ELSE LET x == CHOOSE y \in S : TRUE IN f[x] + SumFn(f, S \ {x})

\* (1 + ln 1.5)^2 in units of 1/1000
IdfSquaredSingle == 1975

\* the row of term counts of one text over the vocabulary
TermCounts(terms, vocab) ==
  Dict([t \in vocab |-> Cardinality({i \in DOMAIN terms : terms[i] = t})])

\* the squared norm of a row, in units of 1/1000
RowNormSquared(tf, shared, single) ==
  1000 * SumFn([t \in shared |-> tf[t] * tf[t]], shared)
    + IdfSquaredSingle * SumFn([t \in single |-> tf[t] * tf[t]], single)

\* the cosine from the dot product (in idf units of 1) and the squared norms
CosineOfRows(dot, n1, n2) ==
  IF dot = 0 THEN Zero
  ELSE IF (1000 * dot) * (1000 * dot) = n1 * n2 THEN One
  ELSE <<(dot * 1000000) \div ISqrtIn(n1 * n2, 0, 46340), 1000>>

CosineOfCounts(tf1, tf2, shared, single) ==
  CosineOfRows(SumFn([t \in shared |-> tf1[t] * tf2[t]], shared),
               RowNormSquared(tf1, shared, single), RowNormSquared(tf2, shared, single))

CosineOfTerms(terms1, terms2) ==
  CosineOfCounts(TermCounts(terms1, Range(terms1) \cup Range(terms2)),
                 TermCounts(terms2, Range(terms1) \cup Range(terms2)),
                 Range(terms1) \cap Range(terms2),
                 (Range(terms1) \cup Range(terms2)) \ (Range(terms1) \cap Range(terms2)))

TfidfCosine(text1, text2) == CosineOfTerms(TfidfTerms(text1), TfidfTerms(text2))

\* _calculate_semantic_similarity; an empty vocabulary makes fit_transform
\* raise ValueError, which the except clause turns into 0.0
CalculateSemanticSimilarity(story1, story2) ==
  LET text1 == Get(story1, "clean_text", <<>>) \o <<" ">> \o Get(story1, "clean_capability", <<>>)
      text2 == Get(story2, "clean_text", <<>>) \o <<" ">> \o Get(story2, "clean_capability", <<>>)
  IN  IF StrStrip(text1) = <<>> \/ StrStrip(text2) = <<>> THEN Zero
      ELSE IF TfidfTerms(text1) = <<>> /\ TfidfTerms(text2) = <<>> THEN Zero
      ELSE TfidfCosine(text1, text2)

\* x >= y on rationals with positive denominators
RatGeq(x, y) == x[1] * y[2] >= y[1] * x[2]

\* 0.4 * text + 0.4 * capability + 0.2 * semantic
WeightedSimilarity(text_similarity, capability_similarity, semantic_similarity) ==
  << 4 * text_similarity[1] * capability_similarity[2] * semantic_similarity[2]
     + 4 * capability_similarity[1] * text_similarity[2] * semantic_similarity[2]
     + 2 * semantic_similarity[1] * text_similarity[2] * capability_similarity[2],
     10 * text_similarity[2] * capability_similarity[2] * semantic_similarity[2] >>

\* _are_stories_similar
\* the comparison with the threshold excluded
AreStoriesSimilarStrict(story1, story2) ==
  ~RatGeq(similarity_threshold,
          WeightedSimilarity(CalculateTextSimilarity(story1, story2),
                             CalculateCapabilitySimilarity(story1, story2),
                             CalculateSemanticSimilarity(story1, story2)))

\* _are_stories_similar: weighted_similarity >= self.similarity_threshold
AreStoriesSimilar(story1, story2) ==
  RatGeq(WeightedSimilarity(CalculateTextSimilarity(story1, story2),
                            CalculateCapabilitySimilarity(story1, story2),
                            CalculateSemanticSimilarity(story1, story2)),
         similarity_threshold)

RECURSIVE FindDuplicatesFrom(_, _, _, _)
\* the outer loop of _find_duplicates from position i on (positions count
\* from 1); similar[<<i, j>>] is _are_stories_similar(stories[i], stories[j])
FindDuplicatesFrom(similar, n, i, processed) ==
  IF i > n THEN <<>>
  ELSE IF i \in processed THEN FindDuplicatesFrom(similar, n, i + 1, processed)
  ELSE LET later == {j \in (i + 1)..n : j \notin processed /\ similar[<<i, j>>]}
           current_group == SetToSortedSeq({i} \cup later)
           rest == FindDuplicatesFrom(similar, n, i + 1, processed \cup {i} \cup later)
       IN  IF Len(current_group) > 1 THEN <<current_group>> \o rest ELSE rest

\* _are_stories_similar for every pair of positions i < j
SimilarPairs(stories) ==
  Dict([p \in {q \in (1..Len(stories)) \X (1..Len(stories)) : q[1] < q[2]} |->
          AreStoriesSimilar(stories[p[1]], stories[p[2]])])

\* the groups when the members of a group are not marked as processed:
\* every position with all the later positions similar to it
FindDuplicatesUnmarked(stories) ==
  SelectSeq(List([i \in 1..Len(stories) |->
              SetToSortedSeq({i} \cup {j \in (i + 1)..Len(stories) :
                                         AreStoriesSimilar(stories[i], stories[j])})]),
            LAMBDA g : Len(g) > 1)

RECURSIVE ClosureOf(_, _, _)
\* the positions linked to a position of S by a chain of similar pairs
ClosureOf(similar, n, S) ==
  LET T == S \cup {j \in 1..n : \E i \in S : (i < j /\ similar[<<i, j>>]) \/ (j < i /\ similar[<<j, i>>])}
  IN  IF T = S THEN S ELSE ClosureOf(similar, n, T)

\* the groups of a transitive-closure clustering, ordered by first position
ClosureGroups(similar, n) ==
  LET firsts == SetToSortedSeq({i \in 1..n : /\ ClosureOf(similar, n, {i}) # {i}
                                             /\ \A j \in ClosureOf(similar, n, {i}) : i <= j})
  IN  List([k \in 1..Len(firsts) |-> SetToSortedSeq(ClosureOf(similar, n, {firsts[k]}))])

FindDuplicatesClosure(stories) == ClosureGroups(SimilarPairs(stories), Len(stories))

\* _find_duplicates: the groups come out ordered by their first position
FindDuplicates(stories) == FindDuplicatesFrom(SimilarPairs(stories), Len(stories), 1, {})

RECURSIVE AppendSentences(_, _)
\* the inner loop of _merge_text_fields over the pieces of one text
AppendSentences(merged_text, sentences) ==
  IF sentences = <<>> THEN merged_text
  ELSE LET sentence == StrStrip(Head(sentences))
       IN  AppendSentences(
             IF sentence # <<>> /\ ~IsSubstring(sentence, merged_text)
             THEN merged_text \o <<".", " ">> \o sentence
             ELSE merged_text,
             Tail(sentences))

RECURSIVE AppendTexts(_, _, _)
\* the outer loop of _merge_text_fields over sorted_texts[1:]
AppendTexts(merged_text, texts, longest_text) ==
  IF texts = <<>> THEN merged_text
  ELSE AppendTexts(
         IF Head(texts) # longest_text
         THEN AppendSentences(merged_text, StrSplitDot(Head(texts)))
         ELSE merged_text,
         Tail(texts), longest_text)

\* the longest of the non-blank texts alone, nothing appended
KeepLongestText(texts) ==
  LET nonempty == SelectSeq(texts, LAMBDA t : t # <<>> /\ StrStrip(t) # <<>>)
  IN  IF nonempty = <<>> THEN <<>>
      ELSE StableSort(nonempty, List([i \in DOMAIN nonempty |-> 0 - Len(nonempty[i])]))[1]

\* _merge_text_fields
MergeTextFields(texts) ==
  LET nonempty == SelectSeq(texts, LAMBDA t : t # <<>> /\ StrStrip(t) # <<>>)
      sorted_texts == StableSort(nonempty, List([i \in DOMAIN nonempty |-> 0 - Len(nonempty[i])]))
      longest_text == sorted_texts[1]
  IN  IF nonempty = <<>> THEN <<>>
      ELSE IF Len(nonempty) = 1 THEN nonempty[1]
      ELSE AppendTexts(longest_text, Tail(sorted_texts), longest_text)

\* round(x, 3) for x = num / den thousandths: the nearest thousandth.  A decimal
\* tie (x.xxx5) is no binary float: the float that stands for it lies just
\* below or just above, and round() follows it (float_tie_up).
Round3(num, den) ==
  LET q == num \div den
      r == num % den
  IN  IF 2 * r < den THEN q
      ELSE IF 2 * r > den THEN q + 1
      ELSE IF float_tie_up THEN q + 1 ELSE q

\* sorted(documents, key=lambda x: x['filename'])
SortByFilename(documents) ==
  StableSort(documents, StrRanks(List([i \in DOMAIN documents |-> documents[i].filename])))

\* the stories in the order given
AsGiven(stories) == stories

\* sorted(story_group, key=lambda x: x.get('User Story ID', ''))
SortByStoryId(stories) ==
  StableSort(stories, StrRanks(List([i \in DOMAIN stories |-> Get(stories[i], "User Story ID", <<>>)])))

\* _generate_merge_hash
GenerateMergeHash(story_group) ==
  MD5(StrJoin(<<"|">>,
        SortedStrs(List([i \in DOMAIN story_group |-> Get(story_group[i], "User Story ID", <<>>)]))))

\* _merge_story_group (scores in units of 1/1000)
MergeSortedGroup(sorted_group) ==
  LET n == Len(sorted_group)
      field(key) == List([i \in 1..n |-> Get(sorted_group[i], key, <<>>)])
      all_tags == Flatten(field("Tags"))
      all_requirements == Flatten(field("requirements"))
      all_criteria == Flatten(field("acceptance_criteria"))
      confidences == List([i \in 1..n |-> Get(sorted_group[i], "Match Score", 500)])
  IN  ("User Story" :> MergeTextFields(field("User Story")))
        @@ ("Capability" :> MergeTextFields(field("Capability")))
        @@ ("Snippet" :> MergeTextFields(field("Snippet")))
        @@ ("Tags" :> SortedStrSet(Range(all_tags)))
        @@ ("requirements" :> SortedStrSet(Range(all_requirements)))
        @@ ("acceptance_criteria" :> SortedStrSet(Range(all_criteria)))
        @@ ("source_files" :> SortedStrs(SelectSeq(field("Source"), LAMBDA f : f # <<>>)))
        @@ ("duplicate_count" :> n)
        @@ ("Match Score" :> Round3(SumSeq(confidences), n))
        @@ ("merge_hash" :> GenerateMergeHash(sorted_group))
        @@ sorted_group[1]

MergeStoryGroup(story_group) ==
  IF story_group = <<>> THEN <<>>
  ELSE MergeSortedGroup(SortByStoryId(story_group))

\* merged_stories.sort(key=...): the unmerged stories by their position in the
\* input, then the merged records (sort key 999999) in group order
SortByFirstIndex(stories, merged_stories) ==
  LET index(x) == IF \E i \in 1..Len(stories) : stories[i] = x
                  THEN (CHOOSE i \in 1..Len(stories) :
                          stories[i] = x /\ \A j \in 1..(i - 1) : stories[j] # x) - 1
                  ELSE 999999
  IN  StableSort(merged_stories, List([k \in DOMAIN merged_stories |-> index(merged_stories[k])]))

\* _merge_duplicates without the stories that belong to no group
MergedOnly(stories, groups, kept) ==
  List([k \in 1..Len(groups) |->
          MergeStoryGroup([m \in 1..Len(groups[k]) |-> stories[groups[k][m]]])])

\* the merged records of the groups, then the stories of no group
MergedThenKept(stories, groups, kept) ==
  List([k \in 1..Len(groups) |->
          MergeStoryGroup([m \in 1..Len(groups[k]) |-> stories[groups[k][m]]])])
    \o [k \in 1..Len(kept) |-> stories[kept[k]]]

MergeGroups(stories, groups) ==
  SortByFirstIndex(stories,
    MergedThenKept(stories, groups,
      SelectSeq([i \in 1..Len(stories) |-> i],
                LAMBDA i : i \notin UNION {Range(groups[k]) : k \in 1..Len(groups)})))

\* _merge_duplicates
MergeDuplicates(stories, duplicate_groups) ==
  MergeGroups(stories, SelectSeq(duplicate_groups, LAMBDA g : Len(g) # 1))

\* the group captured by  so that (.+)  in the lower-cased story: the rest of
\* the line after the first "so that " that is followed by a character
BenefitLength(lowered) ==
  LET so_that == <<"s","o"," ","t","h","a","t"," ">>
      starts == {i \in 1..Len(lowered) :
                   /\ i + 8 <= Len(lowered)
                   /\ SubSeq(lowered, i, i + 7) = so_that
                   /\ lowered[i + 8] # "\n"}
      first == CHOOSE i \in starts : \A j \in starts : i <= j
      stops == {j \in (first + 8)..Len(lowered) : lowered[j] = "\n"}
  IN  IF starts = {} THEN 0
      ELSE IF stops = {} THEN Len(lowered) - (first + 7)
      ELSE (CHOOSE j \in stops : \A j2 \in stops : j <= j2) - (first + 8)

Min(a, b) == IF a <= b THEN a ELSE b

\* _calculate_quality_score, in units of 1/1000
CalculateQualityScore(story) ==
  LET lowered == StrLower(Get(story, "User Story", <<>>))
      capability == Get(story, "Capability", <<>>)
      format == /\ IsSubstring(<<"a","s"," ","a">>, lowered)
                /\ IsSubstring(<<"i"," ","n","e","e","d">>, lowered)
                /\ IsSubstring(<<"s","o"," ","t","h","a","t">>, lowered)
  IN  Min(500 + (IF format THEN 200 ELSE 0)
              + (IF Len(capability) > 20 THEN 100 ELSE 0)
              + (IF BenefitLength(lowered) > 10 THEN 100 ELSE 0)
              + (IF Len(Get(story, "Tags", <<>>)) > 1 THEN 100 ELSE 0),
          1000)

\* _calculate_completeness_score, in units of 1/1000
CalculateCompletenessScore(story) ==
  LET required_fields == {"User Story", "Capability", "Category", "Priority"}
      optional_fields == {"Snippet", "Tags", "requirements", "acceptance_criteria"}
      present(fields) == Cardinality({f \in fields : Get(story, f, <<>>) # <<>>})
  IN  Min(500 + 100 * present(required_fields) + 50 * present(optional_fields), 1000)

\* the final score of one story: round(0.5 * base + 0.3 * quality + 0.2 * completeness, 3)
FinalScore(story) ==
  Round3(5 * Get(story, "Match Score", 500)
                + 3 * CalculateQualityScore(story)
                + 2 * CalculateCompletenessScore(story), 10)

\* the stories with the scores they came with
KeepRawScores(stories) == stories

\* _calculate_final_scores
CalculateFinalScores(stories) ==
  List([i \in 1..Len(stories) |-> Put(stories[i], "Match Score", FinalScore(stories[i]))])

\* the scored stories left in the order the merge produced them
KeepMergedOrder(stories) == stories

\* scored_stories.sort(key=lambda x: (-x.get('Match Score', 0), x.get('User Story ID', '')))
SortByScoreThenId(stories) ==
  LET ranks == StrRanks([i \in DOMAIN stories |-> Get(stories[i], "User Story ID", <<>>)])
      n == Len(stories)
  IN  StableSort(stories,
        List([i \in DOMAIN stories |-> (0 - Get(stories[i], "Match Score", 0)) * (n + 1) + ranks[i]]))

\* deduplicate_and_score from the cleaned stories to merged_stories
MergeCleaned(cleaned_stories) ==
  MergeDuplicates(cleaned_stories, FindDuplicates(cleaned_stories))

\* the intermediate merged_stories of deduplicate_and_score
MergedBeforeScoring(stories) ==
  IF stories = <<>> THEN <<>>
  ELSE MergeCleaned(CleanStories(SortByStoryId(stories)))

\* a field that holds None is written as the key "<field>=None": to .get()
\* and to truth tests it is as good as absent, while 'requirements' in story
\* holds and all_requirements.extend(None) raises TypeError
HoldsNone(story, field) ==
  (IF field = "requirements" THEN "requirements=None" ELSE "acceptance_criteria=None")
    \in DOMAIN story

\* _merge_duplicates raises: a group of several stories has a member that
\* _merge_story_group cannot merge
MergeRaises(stories) ==
  /\ \E i \in DOMAIN stories :
       HoldsNone(stories[i], "requirements") \/ HoldsNone(stories[i], "acceptance_criteria")
  /\ \E cleaned_stories \in {CleanStories(SortByStoryId(stories))} :
       \E group \in Range(FindDuplicates(cleaned_stories)) :
         /\ Len(group) # 1
         /\ \E m \in DOMAIN group :
              \/ HoldsNone(cleaned_stories[group[m]], "requirements")
              \/ HoldsNone(cleaned_stories[group[m]], "acceptance_criteria")

\* the pipeline run over the stories in the order given
DeduplicateAsGiven(stories) ==
  IF stories = <<>> THEN <<>>
  ELSE SortByScoreThenId(CalculateFinalScores(MergeCleaned(CleanStories(stories))))

\* deduplicate_and_score
DeduplicateAndScore(stories) ==
  IF stories = <<>> THEN <<>>
  ELSE SortByScoreThenId(CalculateFinalScores(
         MergeCleaned(CleanStories(SortByStoryId(stories)))))

(***************************************************************************)
(* Candidate stories of the model.                                         *)
(***************************************************************************)
\* the pool, as Python dicts:
\*   {"User Story": "x y", "Capability": "x y", "Source": "f1", "Match Score": 0.8, "Category": "wf", "Priority": "hi", "Tags": ["hi", "wf"]}
\*   {"User Story": "X y.", "Capability": "x y z", "Source": "f1", "Match Score": 0.5, "Tags": ["lo"]}
\*   {"User Story": "x y", "Capability": "x y z w", "Source": "f2", "Snippet": "x"}
\*   {"User Story": "As a xx, I need yy so that zz is done now", "Capability": "yy zz", "Source": "f2", "Match Score": 1.0, "Category": "wf", "Priority": "hi", "Tags": ["hi", "wf"], "requirements": ["r1"], "acceptance_criteria": ["c1"], "Snippet": "xx yy"}
\*   {"User Story": "As a xx, I need yy so that zz is done. Ok", "Capability": "yy zz", "Source": "f1", "Match Score": 0.0, "Category": "wf"}
StoryPool ==
  << (("User Story" :> <<"x"," ","y">>) @@
      ("Capability" :> <<"x"," ","y">>) @@
      ("Source" :> <<"f","1">>) @@
      ("Match Score" :> 800) @@
      ("Category" :> <<"w","f">>) @@
      ("Priority" :> <<"h","i">>) @@
      ("Tags" :> <<<<"h","i">>, <<"w","f">>>>)),
     (("User Story" :> <<"X"," ","y",".">>) @@
      ("Capability" :> <<"x"," ","y"," ","z">>) @@
      ("Source" :> <<"f","1">>) @@
      ("Match Score" :> 500) @@
      ("Tags" :> <<<<"l","o">>>>)),
     (("User Story" :> <<"x"," ","y">>) @@
      ("Capability" :> <<"x"," ","y"," ","z"," ","w">>) @@
      ("Source" :> <<"f","2">>) @@
      ("Snippet" :> <<"x">>)),
     (("User Story" :> <<"A","s"," ","a"," ","x","x",","," ","I"," ","n","e","e","d"," ","y","y"," ","s","o"," ","t","h","a","t"," ","z","z"," ","i","s"," ","d","o","n","e"," ","n","o","w">>) @@
      ("Capability" :> <<"y","y"," ","z","z">>) @@
      ("Source" :> <<"f","2">>) @@
      ("Match Score" :> 1000) @@
      ("Category" :> <<"w","f">>) @@
      ("Priority" :> <<"h","i">>) @@
      ("Tags" :> <<<<"h","i">>, <<"w","f">>>>) @@
      ("requirements" :> <<<<"r","1">>>>) @@
      ("acceptance_criteria" :> <<<<"c","1">>>>) @@
      ("Snippet" :> <<"x","x"," ","y","y">>)),
     (("User Story" :> <<"A","s"," ","a"," ","x","x",","," ","I"," ","n","e","e","d"," ","y","y"," ","s","o"," ","t","h","a","t"," ","z","z"," ","i","s"," ","d","o","n","e","."," ","O","k">>) @@
      ("Capability" :> <<"y","y"," ","z","z">>) @@
      ("Source" :> <<"f","1">>) @@
      ("Match Score" :> 0) @@
      ("Category" :> <<"w","f">>)) >>

\* 'US-1' < 'US-10' < 'US-2' < 'US-3' as Python compares str
StoryIds ==
  << <<"U","S","-","1">>, <<"U","S","-","1","0">>, <<"U","S","-","2">>, <<"U","S","-","3">> >>

\* the lists of at most MaxStories candidates: distinct pool stories in pool
\* order, numbered with the first identifiers in any order or with one
\* identifier shared by all of them
CandidateLists ==
  UNION { { [i \in 1..n |-> Put(StoryPool[pick[i]], "User Story ID", StoryIds[ids[i]])] :
              pick \in {f \in [1..n -> DOMAIN StoryPool] :
                          \A i \in 1..(n - 1) : f[i] < f[i + 1]},
              ids \in Permutations(1..n) \cup { [i \in 1..n |-> 1] } } :
          n \in 0..Min(MaxStories, Min(Len(StoryPool), Len(StoryIds))) }

\* the thresholds an engine is configured with (default 0.7)
Thresholds == { <<7, 10>>, <<8, 10>> }

NoCall == [op |-> "none", args |-> <<>>]

Permuted(seq, perm) == List([i \in 1..Len(seq) |-> seq[perm[i]]])

Reversed(seq) == List([i \in 1..Len(seq) |-> seq[Len(seq) + 1 - i]])

(***************************************************************************)
(* ExtractionEngine (extraction_engine.py) as the worker drives it from    *)
(* process_documents_with_ai (main.py).                                    *)
(***************************************************************************)

\* the engine as constructed, before any document is taken up
ExtractionIdle ==
  /\ story_counter = 1
  /\ current_doc = [filename |-> <<>>, started |-> FALSE]
  /\ docs_started = 0
  /\ paragraph_index = 0
  /\ all_stories = <<>>
  /\ extract_call = NoCall

\* no hash function called, nothing handed over
HashIdle ==
  /\ hash_input = [documents |-> <<>>, construct |-> <<>>, stories |-> <<>>, text_content |-> FALSE]
  /\ hash_call = NoCall

\* the input hashes the jobs run under
InputHashes == { <<"h","1">> }

\* no file in the cache directory
NoFile == <<>>

\* a cache file that json.load cannot decode: a truncated write
CorruptFile == <<"{">>

\* a fresh cache directory, no call made
ConsistencyIdle ==
  /\ cache = [input_hash \in InputHashes |-> NoFile]
  /\ cache_writable = TRUE
  /\ cons_call = NoCall
  /\ jobs = <<>>

\* a worker with no job taken up: nothing set in the environment, nothing
\* uploaded, both services available
WorkerIdle ==
  /\ environ = <<>>
  /\ blobs = <<>>
  /\ embedding_model = TRUE
  /\ provider_up = TRUE
  /\ storage_up = TRUE
  /\ job_pc = "idle"
  /\ job_ref = [status |-> "QUEUED"]
  /\ job_documents = <<>>
  /\ decision = <<>>
  /\ vectorized_chunks = <<>>
  /\ processed_docs = <<>>
  /\ user_stories = <<>>
  /\ job_log = <<>>

\* a vector processor none of whose methods was called
ContextIdle ==
  /\ context_call = NoCall
  /\ context_result = <<>>

\* an engine with the default threshold that was never called
DedupIdle ==
  /\ similarity_threshold = <<7, 10>>
  /\ float_tie_up = FALSE
  /\ candidates = <<>>
  /\ dedup_call = NoCall
  /\ unscored_stories = <<>>
  /\ dedup_result = <<>>
  /\ first_scored = <<>>

(***************************************************************************)
(* The engine under test: a job's candidates and the calls made on them.   *)
(***************************************************************************)
DedupInit ==
  /\ similarity_threshold \in Thresholds
  /\ float_tie_up \in BOOLEAN
  /\ candidates \in CandidateLists
  /\ dedup_call = NoCall
  /\ unscored_stories = <<>>
  /\ dedup_result = <<>>
  /\ first_scored = <<>>
  /\ ExtractionIdle
  /\ ContextIdle
  /\ gemini_model = FALSE
  /\ HashIdle
  /\ ConsistencyIdle
  /\ WorkerIdle

\* the job runs deduplicate_and_score over its candidates as collected
Deduplicate ==
  /\ dedup_call = NoCall
  /\ \E raises \in {MergeRaises(candidates)} :
       /\ dedup_call' = IF raises
                        THEN [op |-> "deduplicate_and_score", args |-> candidates,
                              raised |-> "TypeError"]
                        ELSE [op |-> "deduplicate_and_score", args |-> candidates]
       /\ unscored_stories' = IF raises THEN <<>> ELSE MergedBeforeScoring(candidates)
       /\ dedup_result' = IF raises THEN <<>> ELSE DeduplicateAndScore(candidates)
  /\ first_scored' = dedup_result'
  /\ UNCHANGED <<similarity_threshold, float_tie_up, candidates, extract_vars, hash_vars, consistency_vars, worker_vars, context_vars>>

\* a later run of deduplicate_and_score over the same candidates in another order
DeduplicatePermuted ==
  /\ dedup_call = [op |-> "deduplicate_and_score", args |-> candidates]
  /\ \E perm \in Permutations(1..Len(candidates)) :
       /\ dedup_call' = [op |-> "deduplicate_and_score", args |-> Permuted(candidates, perm)]
       /\ unscored_stories' = MergedBeforeScoring(Permuted(candidates, perm))
       /\ dedup_result' = DeduplicateAndScore(Permuted(candidates, perm))
  /\ UNCHANGED <<similarity_threshold, float_tie_up, candidates, first_scored, extract_vars, hash_vars, consistency_vars, worker_vars, context_vars>>

\* _are_stories_similar on two cleaned candidates
CompareStories ==
  /\ dedup_call = NoCall
  /\ \E i, j \in 1..Len(candidates) :
       /\ i < j
       /\ dedup_call' = [op |-> "_are_stories_similar",
                         args |-> <<CleanStory(candidates[i]), CleanStory(candidates[j])>>]
       /\ dedup_result' = AreStoriesSimilar(CleanStory(candidates[i]), CleanStory(candidates[j]))
  /\ unscored_stories' = <<>>
  /\ UNCHANGED <<similarity_threshold, float_tie_up, candidates, first_scored, extract_vars, hash_vars, consistency_vars, worker_vars, context_vars>>

\* _merge_story_group on a duplicate group of the candidates, members in any order
MergeGroup ==
  /\ dedup_call = NoCall
  /\ \E cleaned_stories \in {CleanStories(SortByStoryId(candidates))} :
       \E duplicate_groups \in {FindDuplicates(cleaned_stories)} :
         \E g \in 1..Len(duplicate_groups) :
           \E perm \in Permutations(1..Len(duplicate_groups[g])) :
             \E story_group \in {List([m \in 1..Len(duplicate_groups[g]) |->
                                    cleaned_stories[duplicate_groups[g][perm[m]]]])} :
               /\ dedup_call' = [op |-> "_merge_story_group", args |-> story_group]
               /\ dedup_result' = MergeStoryGroup(story_group)
  /\ unscored_stories' = <<>>
  /\ UNCHANGED <<similarity_threshold, float_tie_up, candidates, first_scored, extract_vars, hash_vars, consistency_vars, worker_vars, context_vars>>

DedupNext == Deduplicate \/ DeduplicatePermuted \/ CompareStories \/ MergeGroup

SpecDedup == DedupInit /\ [][DedupNext]_vars

(***************************************************************************)
(* Properties of the deduplication engine, checked under SpecDedup.        *)
(***************************************************************************)
\* the stories carry pairwise-distinct 'User Story ID' values
DistinctIds(stories) ==
  \A i, j \in 1..Len(stories) :
    i # j => Get(stories[i], "User Story ID", <<>>) # Get(stories[j], "User Story ID", <<>>)

\* C1: for a candidate list with pairwise-distinct identifiers, every run of
\* deduplicate_and_score over a reordering of the list returns the output of
\* the run over the list as collected: same records, same values, same order.
C1_DedupPermutationInvariant ==
  (dedup_call.op = "deduplicate_and_score" /\ DistinctIds(candidates))
    => dedup_result = first_scored

\* a run over the reverse of three distinctly numbered candidates, two of
\* which were merged
C1_Witness ==
  /\ dedup_call.op = "deduplicate_and_score"
  /\ Len(candidates) = 3
  /\ DistinctIds(candidates)
  /\ dedup_call.args = Reversed(candidates)
  /\ Len(dedup_result) = 2
  /\ \E i \in 1..2 : Get(dedup_result[i], "duplicate_count", 1) = 2

\* 0.4 * lexical + 0.4 * capability + 0.2 * semantic compared with the
\* threshold, both sides multiplied by ten times the denominators
ScoreSide(story1, story2) ==
  LET l == CalculateTextSimilarity(story1, story2)
      c == CalculateCapabilitySimilarity(story1, story2)
      s == CalculateSemanticSimilarity(story1, story2)
  IN  (4 * l[1] * c[2] * s[2] + 4 * c[1] * l[2] * s[2] + 2 * s[1] * l[2] * c[2])
        * similarity_threshold[2]

ThresholdSide(story1, story2) ==
  LET l == CalculateTextSimilarity(story1, story2)
      c == CalculateCapabilitySimilarity(story1, story2)
      s == CalculateSemanticSimilarity(story1, story2)
  IN  10 * similarity_threshold[1] * l[2] * c[2] * s[2]

\* C3: _are_stories_similar answers True exactly when the weighted score
\* 0.4*lexical + 0.4*capability + 0.2*semantic of the pair is greater than or
\* equal to the configured threshold; a score equal to the threshold counts.
C3_InclusiveThreshold ==
  dedup_call.op = "_are_stories_similar"
    => (dedup_result = TRUE <=>
          ScoreSide(dedup_call.args[1], dedup_call.args[2])
            >= ThresholdSide(dedup_call.args[1], dedup_call.args[2]))

\* a pair scoring exactly the threshold, classified as duplicates
C3_Witness ==
  /\ dedup_call.op = "_are_stories_similar"
  /\ ScoreSide(dedup_call.args[1], dedup_call.args[2])
       = ThresholdSide(dedup_call.args[1], dedup_call.args[2])
  /\ dedup_result = TRUE

\* C4: for a duplicate group with pairwise-distinct identifiers,
\* _merge_story_group returns the same merged record, every field included,
\* for every ordering of the group's members.
C4_MergeOrderIndependent ==
  (dedup_call.op = "_merge_story_group" /\ DistinctIds(dedup_call.args))
    => \A perm \in Permutations(1..Len(dedup_call.args)) :
         MergeStoryGroup(Permuted(dedup_call.args, perm)) = dedup_result

\* a group of distinctly numbered members merged with a later identifier first
C4_Witness ==
  /\ dedup_call.op = "_merge_story_group"
  /\ Len(dedup_call.args) >= 2
  /\ DistinctIds(dedup_call.args)
  /\ StrLess(dedup_call.args[2]["User Story ID"], dedup_call.args[1]["User Story ID"])
  /\ dedup_result["duplicate_count"] = Len(dedup_call.args)

\* ten times 0.5*base + 0.3*quality + 0.2*completeness, in units of 1/1000
WeightedTenfold(story) ==
  5 * Get(story, "Match Score", 500)
    + 3 * CalculateQualityScore(story)
    + 2 * CalculateCompletenessScore(story)

\* C5: every record deduplicate_and_score returns, merged or singleton, has a
\* 'Match Score' within [0, 1] that is the weighted combination
\* 0.5*base + 0.3*quality + 0.2*completeness of the record before scoring,
\* rounded to three decimals, and the record is otherwise unchanged.
C5_FinalScoreWeighted ==
  dedup_call.op = "deduplicate_and_score"
    => /\ Len(dedup_result) = Len(unscored_stories)
       /\ \A k \in 1..Len(dedup_result) :
            LET scored == dedup_result[k]
            IN  /\ "Match Score" \in DOMAIN scored
                /\ scored["Match Score"] \in 0..1000
                /\ \E m \in 1..Len(unscored_stories) :
                     LET before == unscored_stories[m]
                     IN  /\ Put(before, "Match Score", scored["Match Score"]) = scored
                         /\ 10 * scored["Match Score"] - WeightedTenfold(before) \in -5..5

\* a run that returned a merged record and a singleton whose scores differ
\* from the scores they had before scoring
C5_Witness ==
  /\ dedup_call.op = "deduplicate_and_score"
  /\ Len(dedup_result) = 2
  /\ \E k \in 1..2 : Get(dedup_result[k], "duplicate_count", 1) = 2
  /\ \E k \in 1..2 : "duplicate_count" \notin DOMAIN dedup_result[k]
  /\ \A k \in 1..2 : \A m \in 1..2 :
       Get(unscored_stories[m], "Match Score", 500) # dedup_result[k]["Match Score"]

(***************************************************************************)
(* Extraction: Python str helpers.                                         *)
(***************************************************************************)
\* str(n) for n >= 0
RECURSIVE IntToStr(_)
IntToStr(n) ==
  LET digit == <<"0","1","2","3","4","5","6","7","8","9">>[(n % 10) + 1]
  IN  IF n < 10 THEN <<digit>> ELSE Append(IntToStr(n \div 10), digit)

\* text.find(sub): the first position (from 0) or -1
Find(sub, text) ==
  LET hits == {i \in 0..(Len(text) - Len(sub)) : SubSeq(text, i + 1, i + Len(sub)) = sub}
  IN  IF hits = {} THEN -1 ELSE CHOOSE i \in hits : \A j \in hits : i <= j

\* text[lo:hi] for 0 <= lo
Slice(text, lo, hi) == SubSeq(text, lo + 1, Min(hi, Len(text)))

RECURSIVE SplitLinesFrom(_, _, _)
\* the pieces of text.split('\n') from position i on, cur the piece begun
SplitLinesFrom(text, i, cur) ==
  IF i > Len(text) THEN <<cur>>
  ELSE IF text[i] = "\n"
       THEN <<cur>> \o SplitLinesFrom(text, i + 1, <<>>)
       ELSE SplitLinesFrom(text, i + 1, Append(cur, text[i]))

\* any(keyword in text for keyword in keywords)
AnyKeywordIn(keywords, text) == \E k \in DOMAIN keywords : IsSubstring(keywords[k], text)

RECURSIVE WordRun(_, _)
\* the word characters a \w+ takes from position i (from 1) on
WordRun(text, i) ==
  IF i > Len(text) \/ ~IsWordChar(text[i]) THEN <<>>
  ELSE <<text[i]>> \o WordRun(text, i + 1)

\* re.search(r'as a (\w+)', text): group 1 of the leftmost match, <<>> for no match
SearchAsA(text) ==
  LET as_a == <<"a","s"," ","a"," ">>
      hits == {i \in 0..(Len(text) - Len(as_a)) :
                 /\ SubSeq(text, i + 1, i + Len(as_a)) = as_a
                 /\ WordRun(text, i + Len(as_a) + 1) # <<>>}
  IN  IF hits = {} THEN <<>>
      ELSE WordRun(text, (CHOOSE i \in hits : \A j \in hits : i <= j) + Len(as_a) + 1)

(***************************************************************************)
(* Extraction: the engine's methods.                                      *)
(***************************************************************************)
\* _generate_sequential_id: the identifier; the counter moves on by one
GenerateSequentialId(counter) == <<"U","S","-">> \o IntToStr(counter)

\* _extract_with_patterns: the first capability keyword, in list order, that
\* occurs in the text
capability_keywords == <<<<"n","e","e","d">>, <<"w","a","n","t">>, <<"s","h","o","u","l","d">>, <<"m","u","s","t">>, <<"r","e","q","u","i","r","e">>>>

PatternCapability(text) ==
  LET text_lower == StrLower(text)
      found == {k \in DOMAIN capability_keywords : IsSubstring(capability_keywords[k], text_lower)}
      keyword == capability_keywords[CHOOSE k \in found : \A k2 \in found : k <= k2]
      start_idx == Find(keyword, text_lower)
      capability == IF found = {} THEN <<>>
                    ELSE StrStrip(Slice(text, start_idx, start_idx + 100))
  IN  IF capability = <<>> THEN StrStrip(Slice(text, 0, 100)) ELSE capability

PatternCategory(text) ==
  IF AnyKeywordIn(<<<<"w","o","r","k","f","l","o","w">>, <<"p","r","o","c","e","s","s">>, <<"a","p","p","r","o","v","a","l">>>>, StrLower(text)) THEN <<"w","o","r","k","f","l","o","w">>
  ELSE IF AnyKeywordIn(<<<<"a","s","s","e","t">>, <<"d","i","g","i","t","a","l">>, <<"m","e","t","a","d","a","t","a">>>>, StrLower(text)) THEN <<"d","a","m">>
  ELSE <<"g","e","n","e","r","a","l">>

PatternRole(text) ==
  IF SearchAsA(StrLower(text)) = <<>> THEN <<"U","s","e","r">> ELSE SearchAsA(StrLower(text))

\* _extract_with_patterns; counter is self.story_counter at the call
ExtractWithPatterns(text, doc, index, counter) ==
  [user_story_id |-> GenerateSequentialId(counter),
   role |-> PatternRole(text),
   capability |-> PatternCapability(text),
   benefit |-> <<"I","m","p","r","o","v","e","d"," ","e","f","f","i","c","i","e","n","c","y"," ","a","n","d"," ","u","s","e","r"," ","e","x","p","e","r","i","e","n","c","e">>,
   category |-> PatternCategory(text),
   priority |-> <<"m","e","d","i","u","m">>,
   source_text |-> Slice(text, 0, 200),
   requirements |-> <<>>,
   acceptance_criteria |-> <<>>,
   source_file |-> doc.filename,
   paragraph_index |-> index,
   extraction_method |-> <<"p","a","t","t","e","r","n">>,
   confidence_score |-> 500,
   content_hash |-> MD5(text)]

\* the keys _extract_story_from_text takes over from a response
response_keys == {<<"U","s","e","r"," ","S","t","o","r","y">>, <<"C","a","p","a","b","i","l","i","t","y">>, <<"C","a","t","e","g","o","r","y">>, <<"P","r","i","o","r","i","t","y">>, <<"S","n","i","p","p","e","t">>, <<"T","e","a","m">>, <<"S","t","a","k","e","h","o","l","d","e","r">>}

KeyName(key) ==
  IF key = <<"U","s","e","r"," ","S","t","o","r","y">> THEN "User Story"
  ELSE IF key = <<"C","a","p","a","b","i","l","i","t","y">> THEN "Capability"
  ELSE IF key = <<"C","a","t","e","g","o","r","y">> THEN "Category"
  ELSE IF key = <<"P","r","i","o","r","i","t","y">> THEN "Priority"
  ELSE IF key = <<"S","n","i","p","p","e","t">> THEN "Snippet"
  ELSE IF key = <<"T","e","a","m">> THEN "Team"
  ELSE "Stakeholder"

RECURSIVE ParseLines(_, _)
\* the loop over the lines of a response: 'key: value' lines with a known key
\* are stored, a later line replacing an earlier one
ParseLines(lines, story_data) ==
  IF lines = <<>> THEN story_data
  ELSE LET line == StrStrip(Head(lines))
           colon == Find(<<":">>, line)
           key == StrStrip(Slice(line, 0, colon))
           value == StrStrip(Slice(line, colon + 1, Len(line)))
       IN  IF colon >= 0 /\ key \in response_keys
           THEN ParseLines(Tail(lines), Put(story_data, KeyName(key), value))
           ELSE ParseLines(Tail(lines), story_data)

NoStory == [none |-> TRUE]

\* _extract_story_from_text (the definition at line 220, which replaces the
\* one at line 157): the parsed story, or None
ExtractStoryFromText(response_text, doc, index) ==
  LET story_data == ParseLines(SplitLinesFrom(StrStrip(response_text), 1, <<>>), <<>>)
  IN  IF "User Story" \in DOMAIN story_data /\ "Capability" \in DOMAIN story_data
      THEN ("id" :> (<<"U","S","-">> \o doc.filename \o <<"-">> \o IntToStr(index)))
           @@ ("source_document" :> doc.filename)
           @@ ("paragraph_index" :> index)
           @@ story_data
      ELSE NoStory

\* the texts of the model's paragraphs: a blank one, one with a role and a
\* capability keyword, one with neither
Paragraphs == { <<" "," ">>,
                <<"A","s"," ","a"," ","p","m",","," ","I"," ","n","e","e","d"," ","a","p","p","r","o","v","a","l">>,
                <<"u","p","l","o","a","d"," ","a","s","s","e","t">> }

\* the texts a model answers with: a story in the prompt's format, and "null"
Responses == { <<"U","s","e","r"," ","S","t","o","r","y",":"," ","A","s"," ","a"," ","p","m",","," ","I"," ","n","e","e","d"," ","x"," ","s","o"," ","t","h","a","t"," ","y","\n","C","a","p","a","b","i","l","i","t","y",":"," ","x","\n","P","r","i","o","r","i","t","y",":"," ","H","I","G","H">>,
               <<"n","u","l","l">> }

Filenames == { <<"a",".","t","x","t">>, <<"b",".","t","x","t">> }

\* what generate_content_async does: it raises, or it answers with a text
GeminiOutcomes == {[raised |-> TRUE]} \cup {[raised |-> FALSE, text |-> r] : r \in Responses}

\* extract_story_from_text_with_context: the story returned (or None) and the
\* counter afterwards
ExtractStoryFromTextWithContext(text, doc, index, counter, outcome) ==
  IF ~gemini_model \/ outcome.raised
  THEN [story |-> ExtractWithPatterns(text, doc, index, counter), story_counter |-> counter + 1]
  ELSE [story |-> ExtractStoryFromText(outcome.text, doc, index), story_counter |-> counter]

\* _structure_story: the 'User Story ID' the structured story gets
StructuredStoryId(story) == Get(story, "user_story_id", <<>>)

(***************************************************************************)
(* Extraction: the loop of process_documents_with_ai.                      *)
(***************************************************************************)
\* for doc in processed_docs: the loop takes up the next document
NextDocument ==
  /\ docs_started < MaxDocuments
  /\ \E filename \in Filenames :
       current_doc' = [filename |-> filename, started |-> TRUE]
  /\ docs_started' = docs_started + 1
  /\ paragraph_index' = 0
  /\ UNCHANGED <<story_counter, gemini_model, all_stories, extract_call, dedup_vars, hash_vars, consistency_vars, worker_vars, context_vars>>

\* for i, paragraph in enumerate(...): one paragraph of the current document
ProcessParagraph ==
  /\ current_doc.started
  /\ paragraph_index < MaxParagraphs
  /\ \E paragraph \in Paragraphs, outcome \in GeminiOutcomes :
       \E extracted \in {ExtractStoryFromTextWithContext(paragraph, current_doc,
                           paragraph_index, story_counter, outcome)} :
         IF StrStrip(paragraph) = <<>>
         THEN UNCHANGED <<story_counter, all_stories, extract_call>>
         ELSE /\ story_counter' = extracted.story_counter
              /\ all_stories' = IF extracted.story = NoStory THEN all_stories
                                ELSE Append(all_stories, extracted.story)
              /\ extract_call' = [op |-> "extract_story_from_text_with_context",
                                  text |-> paragraph, doc |-> current_doc,
                                  index |-> paragraph_index, counter |-> story_counter,
                                  outcome |-> outcome, returned |-> extracted.story]
  /\ paragraph_index' = paragraph_index + 1
  /\ UNCHANGED <<gemini_model, current_doc, docs_started, dedup_vars, hash_vars, consistency_vars, worker_vars, context_vars>>

ExtractInit ==
  /\ ExtractionIdle
  /\ ContextIdle
  /\ HashIdle
  /\ gemini_model \in BOOLEAN
  /\ DedupIdle
  /\ ConsistencyIdle
  /\ WorkerIdle

ExtractNext == NextDocument \/ ProcessParagraph

SpecExtract == ExtractInit /\ [][ExtractNext]_vars

\* C2: within one run every candidate story the extraction engine produced,
\* AI-parsed or pattern fallback, carries a 'User Story ID' distinct from the
\* identifier of every other candidate of the run.
C2_StoryIdsUnique ==
  \A i, j \in 1..Len(all_stories) :
    i # j => StructuredStoryId(all_stories[i]) # StructuredStoryId(all_stories[j])

(***************************************************************************)
(* ConsistencyChecker (consistency_checker.py): the two hash functions.    *)
(***************************************************************************)
\* json.dumps(value, sort_keys=True, separators=(',', ':')): the text is
\* determined by the value, whatever order a dict's keys were inserted in,
\* and differs for values that differ
JsonDumps(value) == <<"json", value>>

\* generate_input_hash; text_content says that the documents' contents are
\* str, not bytes, and hashlib.md5 applied to a str raises TypeError
GenerateInputHash(documents, construct, text_content) ==
  IF documents # <<>> /\ text_content THEN <<"TypeError">>
  ELSE MD5(JsonDumps(
         [construct |-> construct,
          documents |->
            List([i \in 1..Len(documents) |->
                    [filename |-> SortByFilename(documents)[i].filename,
                     file_type |-> SortByFilename(documents)[i].file_type,
                     content_hash |-> MD5(SortByFilename(documents)[i].content),
                     size |-> Len(SortByFilename(documents)[i].content)]])]))

\* the entry of story_data that _generate_output_hash builds for one story
StoryData(story) ==
  [id |-> Get(story, "User Story ID", <<>>),
   story |-> Get(story, "User Story", <<>>),
   category |-> Get(story, "Category", <<>>),
   priority |-> Get(story, "Priority", <<>>),
   score |-> Get(story, "Match Score", 0),
   tags |-> SortedStrs(Get(story, "Tags", <<>>)),
   content_hash |-> Get(story, "Content Hash", <<>>)]

\* _generate_output_hash
GenerateOutputHash(stories) ==
  MD5(JsonDumps(List([i \in 1..Len(stories) |-> StoryData(SortByStoryId(stories)[i])])))

(***************************************************************************)
(* The hash functions applied to bounded inputs.                          *)
(***************************************************************************)
\* documents: two that share the filename a.txt, one named b.txt
DocumentPool ==
  { [filename |-> <<"a",".","t","x","t">>, file_type |-> <<"t","x","t">>, content |-> <<"x">>],
    [filename |-> <<"a",".","t","x","t">>, file_type |-> <<"t","x","t">>, content |-> <<"y","y">>],
    [filename |-> <<"b",".","t","x","t">>, file_type |-> <<"t","x","t">>, content |-> <<"x">>] }

\* output stories: two that share the identifier US-1, one numbered US-2,
\* one without identifier
OutputStories ==
  << ("User Story ID" :> <<"U","S","-","1">>) @@ ("User Story" :> <<"a","b">>) @@ ("Category" :> <<"w","f">>) @@ ("Priority" :> <<"h","i">>) @@ ("Match Score" :> 800) @@ ("Tags" :> <<<<"t","2">>, <<"t","1">>>>) @@ ("Content Hash" :> <<"h","1">>),
     ("User Story ID" :> <<"U","S","-","1">>) @@ ("User Story" :> <<"a","c">>) @@ ("Category" :> <<"w","f">>) @@ ("Match Score" :> 600) @@ ("Tags" :> <<<<"t","1">>>>) @@ ("Content Hash" :> <<"h","2">>),
     ("User Story ID" :> <<"U","S","-","2">>) @@ ("User Story" :> <<"a","b">>) @@ ("Category" :> <<"d","a","m">>) @@ ("Match Score" :> 650) @@ ("Tags" :> <<>>) @@ ("Content Hash" :> <<"h","3">>),
     ("User Story" :> <<"a","b","c","d">>) @@ ("Category" :> <<"w","f">>) @@ ("Priority" :> <<"h","i">>) @@ ("Match Score" :> 500) >>

OutputPool == Range(OutputStories)

\* the lists of at most MaxHashed distinct members of a pool, in every order
ListsOf(pool) ==
  UNION { {f \in [1..n -> pool] : \A i, j \in 1..n : i # j => f[i] # f[j]} :
          n \in 0..Min(MaxHashed, Cardinality(pool)) }

HashInit ==
  /\ hash_input \in [documents : ListsOf(DocumentPool), construct : { <<>>, [defaults |-> [Team |-> <<"O","p","s">>]] },
                     stories : ListsOf(OutputPool), text_content : BOOLEAN]
  /\ hash_call = NoCall
  /\ ExtractionIdle
  /\ ContextIdle
  /\ gemini_model = FALSE
  /\ DedupIdle
  /\ ConsistencyIdle
  /\ WorkerIdle

\* generate_input_hash over the documents in some order
HashInput ==
  /\ \E perm \in Permutations(1..Len(hash_input.documents)) :
       \E documents \in {Permuted(hash_input.documents, perm)} :
         hash_call' = [op |-> "generate_input_hash", args |-> documents,
                       result |-> GenerateInputHash(documents, hash_input.construct,
                                                    hash_input.text_content)]
  /\ UNCHANGED <<hash_input, dedup_vars, extract_vars, consistency_vars, worker_vars, context_vars>>

\* _generate_output_hash over the stories in some order
HashOutput ==
  /\ \E perm \in Permutations(1..Len(hash_input.stories)) :
       \E stories \in {Permuted(hash_input.stories, perm)} :
         hash_call' = [op |-> "_generate_output_hash", args |-> stories,
                       result |-> GenerateOutputHash(stories)]
  /\ UNCHANGED <<hash_input, dedup_vars, extract_vars, consistency_vars, worker_vars, context_vars>>

HashNext == HashInput \/ HashOutput

SpecHash == HashInit /\ [][HashNext]_vars

\* C6: for every story list and every permutation of it, _generate_output_hash
\* returns the same hash: the order the stories are passed in never matters.
C6_OutputHashPermutationInvariant ==
  hash_call.op = "_generate_output_hash"
    => \A perm \in Permutations(1..Len(hash_call.args)) :
         GenerateOutputHash(Permuted(hash_call.args, perm)) = hash_call.result

\* C7: for every document list and construct, generate_input_hash returns
\* the same hash for every ordering of the documents.
C7_InputHashOrderInvariant ==
  hash_call.op = "generate_input_hash"
    => \A perm \in Permutations(1..Len(hash_call.args)) :
         GenerateInputHash(Permuted(hash_call.args, perm), hash_input.construct,
                           hash_input.text_content) = hash_call.result

(***************************************************************************)
(* ConsistencyChecker: the cache and the checks against it.  Timestamps    *)
(* are left out: no decision of the checker reads them.                    *)
(***************************************************************************)
\* json.load of a text that json.dump wrote
JsonLoad(text) == text[2]

Max(a, b) == IF a >= b THEN a ELSE b

Abs(a) == IF a >= 0 THEN a ELSE 0 - a

RECURSIVE Gcd(_, _)
Gcd(a, b) == IF b = 0 THEN a ELSE Gcd(b, a % b)

\* the rational num/den in lowest terms
Rat(num, den) == IF num = 0 THEN Zero ELSE <<num \div Gcd(num, den), den \div Gcd(num, den)>>

RatAdd(x, y) == Rat(x[1] * y[2] + y[1] * x[2], x[2] * y[2])

RECURSIVE RatSum(_)
\* sum(xs)
RatSum(xs) == IF xs = <<>> THEN Zero ELSE RatAdd(Head(xs), RatSum(Tail(xs)))

\* sum(xs) / len(xs), and 0.0 for an empty list
Average(xs) == IF xs = <<>> THEN Zero ELSE Rat(RatSum(xs)[1], RatSum(xs)[2] * Len(xs))

RECURSIVE StripZeros(_)
StripZeros(digits) ==
  IF Len(digits) > 1 /\ digits[Len(digits)] = "0"
  THEN StripZeros(SubSeq(digits, 1, Len(digits) - 1))
  ELSE digits

\* str(value) of a float of at most three decimals, held in units of 1/1000
StrOfNumber(n) ==
  IntToStr(n \div 1000) \o <<".">>
    \o StripZeros(IntToStr((n % 1000) \div 100) \o IntToStr((n % 100) \div 10) \o IntToStr(n % 10))

\* _text_similarity
TextSimilarity(text1, text2) ==
  IF text1 = <<>> \/ text2 = <<>> THEN Zero
  ELSE IF StrLower(text1) = StrLower(text2) THEN One
  ELSE Rat(Cardinality({i \in 1..Min(Len(text1), Len(text2)) :
                          StrLower(text1)[i] = StrLower(text2)[i]}),
           Max(Len(text1), Len(text2)))

fields_to_compare == <<"User Story", "Category", "Priority", "Match Score">>

\* isinstance(story.get(field, ''), (int, float)): a story that carries a
\* Match Score carries a number, every other field is a str
IsNumeric(story, field) == field = "Match Score" /\ field \in DOMAIN story

\* str(val) if val is truthy, '' otherwise
TruthyStr(story, field) ==
  IF field \notin DOMAIN story THEN <<>>
  ELSE IF IsNumeric(story, field)
       THEN (IF story[field] = 0 THEN <<>> ELSE StrOfNumber(story[field]))
       ELSE story[field]

\* max(0, 1 - diff / max_val) of two numbers that differ
NumericSimilarity(val1, val2) ==
  IF Abs(val1 - val2) >= Max(Abs(val1), Abs(val2)) THEN Zero
  ELSE Rat(Max(Abs(val1), Abs(val2)) - Abs(val1 - val2), Max(Abs(val1), Abs(val2)))

\* the similarity _calculate_story_similarity appends for one field
FieldSimilarity(story1, story2, field) ==
  IF IsNumeric(story1, field) /\ IsNumeric(story2, field)
  THEN (IF story1[field] = story2[field] THEN One
        ELSE NumericSimilarity(story1[field], story2[field]))
  ELSE IF ~IsNumeric(story1, field) /\ ~IsNumeric(story2, field)
          /\ Get(story1, field, <<>>) = Get(story2, field, <<>>)
       THEN One
  ELSE IF TruthyStr(story1, field) # <<>> /\ TruthyStr(story2, field) # <<>>
       THEN TextSimilarity(TruthyStr(story1, field), TruthyStr(story2, field))
  ELSE Zero

\* _calculate_story_similarity
CalculateStorySimilarity(story1, story2) ==
  Average(List([k \in 1..Len(fields_to_compare) |->
                  FieldSimilarity(story1, story2, fields_to_compare[k])]))

\* s.get('User Story ID') == story_id
HasId(story, story_id) == "User Story ID" \in DOMAIN story /\ story["User Story ID"] = story_id

\* next((s for s in stories if s.get('User Story ID') == story_id), None)
FirstWithId(stories, story_id) ==
  IF \E i \in DOMAIN stories : HasId(stories[i], story_id)
  THEN stories[CHOOSE i \in DOMAIN stories :
                 /\ HasId(stories[i], story_id)
                 /\ \A j \in 1..(i - 1) : ~HasId(stories[j], story_id)]
  ELSE NoStory

\* {story.get('User Story ID', '') for story in stories}
StoryIdSet(stories) == {Get(stories[i], "User Story ID", <<>>) : i \in DOMAIN stories}

\* the common identifiers under which both runs hold a story
ComparedIds(cached_stories, current_stories) ==
  {story_id \in StoryIdSet(cached_stories) \cap StoryIdSet(current_stories) :
     /\ FirstWithId(cached_stories, story_id) # NoStory
     /\ FirstWithId(current_stories, story_id) # NoStory}

\* the list similarities of _calculate_consistency_score
CommonSimilarities(cached_stories, current_stories, ids) ==
  List([k \in 1..Len(ids) |->
          CalculateStorySimilarity(FirstWithId(cached_stories, ids[k]),
                                   FirstWithId(current_stories, ids[k]))])

\* round(id_score * 0.6 + content_similarity * 0.4, 3), in units of 1/1000
WeightedScore(id_score, content_similarity) ==
  Round3(1000 * (6 * id_score[1] * content_similarity[2]
                 + 4 * content_similarity[1] * id_score[2]),
         10 * id_score[2] * content_similarity[2])

\* a consistency score that takes the stories both runs hold as unchanged
IdOverlapScore(cached_stories, current_stories) ==
  IF cached_stories = <<>> \/ current_stories = <<>> THEN 0
  ELSE WeightedScore(
         Rat(Cardinality(StoryIdSet(cached_stories) \cap StoryIdSet(current_stories)),
             Cardinality(StoryIdSet(cached_stories) \cup StoryIdSet(current_stories))),
         One)

\* _calculate_consistency_score, in units of 1/1000
CalculateConsistencyScore(cached_stories, current_stories) ==
  IF cached_stories = <<>> \/ current_stories = <<>> THEN 0
  ELSE WeightedScore(
         Rat(Cardinality(StoryIdSet(cached_stories) \cap StoryIdSet(current_stories)),
             Cardinality(StoryIdSet(cached_stories) \cup StoryIdSet(current_stories))),
         Average(CommonSimilarities(cached_stories, current_stories,
                   SortedStrSet(ComparedIds(cached_stories, current_stories)))))

\* the entries of changed_stories (their order is the iteration order of a set)
ChangedStories(cached_stories, current_stories) ==
  { [story_id |-> story_id,
     similarity |-> CalculateStorySimilarity(FirstWithId(cached_stories, story_id),
                                             FirstWithId(current_stories, story_id)),
     cached |-> FirstWithId(cached_stories, story_id),
     current |-> FirstWithId(current_stories, story_id)] :
    story_id \in {id \in ComparedIds(cached_stories, current_stories) :
                    ~RatGeq(CalculateStorySimilarity(FirstWithId(cached_stories, id),
                                                     FirstWithId(current_stories, id)),
                            <<9, 10>>)} }

\* _identify_differences
IdentifyDifferences(cached_stories, current_stories) ==
  [added_stories |-> Cardinality(StoryIdSet(current_stories) \ StoryIdSet(cached_stories)),
   removed_stories |-> Cardinality(StoryIdSet(cached_stories) \ StoryIdSet(current_stories)),
   common_stories |-> Cardinality(StoryIdSet(cached_stories) \cap StoryIdSet(current_stories)),
   total_changes |-> Cardinality(StoryIdSet(current_stories) \ StoryIdSet(cached_stories))
                     + Cardinality(StoryIdSet(cached_stories) \ StoryIdSet(current_stories)),
   changed_stories |-> ChangedStories(cached_stories, current_stories),
   change_details |->
     [added |-> StoryIdSet(current_stories) \ StoryIdSet(cached_stories),
      removed |-> StoryIdSet(cached_stories) \ StoryIdSet(current_stories),
      significantly_changed |-> Cardinality(ChangedStories(cached_stories, current_stories))]]

\* a first run read as a comparison with an empty previous output
FirstRunCompared(output_stories) ==
  [is_consistent |-> output_stories = <<>>,
   message |-> "First run with this input - no previous data to compare",
   consistency_score |-> CalculateConsistencyScore(<<>>, output_stories),
   current_hash |-> GenerateOutputHash(output_stories)]

\* check_consistency when the cache file does not exist
FirstRun(output_stories) ==
  [is_consistent |-> TRUE,
   message |-> "First run with this input - no previous data to compare",
   consistency_score |-> 1000,
   current_hash |-> GenerateOutputHash(output_stories)]

\* check_consistency when the cache file exists
CompareWithCached(cached_data, output_stories, current_output_hash) ==
  IF cached_data.output_hash = current_output_hash
  THEN [is_consistent |-> TRUE,
        message |-> "Output matches previous run exactly",
        consistency_score |-> 1000,
        cached_hash |-> cached_data.output_hash,
        current_hash |-> current_output_hash]
  ELSE [is_consistent |-> FALSE,
        message |-> "Output differs from previous run",
        consistency_score |-> CalculateConsistencyScore(cached_data.stories, output_stories),
        cached_hash |-> cached_data.output_hash,
        current_hash |-> current_output_hash,
        differences |-> IdentifyDifferences(cached_data.stories, output_stories)]

\* check_consistency over the text of the cache file
CheckConsistency(cache_file, output_stories) ==
  IF cache_file # NoFile
  THEN CompareWithCached(JsonLoad(cache_file), output_stories,
                         GenerateOutputHash(output_stories))
  ELSE FirstRun(output_stories)

\* a cache that keeps the entry it already holds
CacheOutputOnce(files, input_hash, output_stories, metadata) ==
  IF files[input_hash] # NoFile THEN files
  ELSE [files EXCEPT ![input_hash] =
          JsonDumps([output_hash |-> GenerateOutputHash(output_stories),
                     stories |-> output_stories,
                     metadata |-> metadata,
                     story_count |-> Len(output_stories)])]

\* cache_output: the cache directory after the write
CacheOutput(files, input_hash, output_stories, metadata) ==
  [files EXCEPT ![input_hash] =
     JsonDumps([output_hash |-> GenerateOutputHash(output_stories),
                stories |-> output_stories,
                metadata |-> metadata,
                story_count |-> Len(output_stories)])]

Unknown == <<"U","n","k","n","o","w","n">>

\* the distribution get_consistency_report counts for one field
CountBy(output_stories, field) ==
  Dict([value \in {Get(output_stories[i], field, Unknown) : i \in DOMAIN output_stories} |->
          Cardinality({i \in DOMAIN output_stories :
                         Get(output_stories[i], field, Unknown) = value})])

\* the recommendation get_consistency_report appends
Recommendation(consistency_result) ==
  IF ~consistency_result.is_consistent
  THEN IF consistency_result.consistency_score < 500
       THEN "CRITICAL: Significant inconsistency detected. Review processing pipeline."
       ELSE IF consistency_result.consistency_score < 800
            THEN "WARNING: Moderate inconsistency detected. Check for recent changes."
            ELSE "INFO: Minor inconsistencies detected. Output is generally consistent."
  ELSE "SUCCESS: Output is fully consistent with previous runs."

\* the report of get_consistency_report
ConsistencyReport(input_hash, output_stories, consistency_result) ==
  [input_hash |-> input_hash,
   consistency_check |-> consistency_result,
   output_summary |->
     [total_stories |-> Len(output_stories),
      categories |-> CountBy(output_stories, "Category"),
      priorities |-> CountBy(output_stories, "Priority"),
      score_distribution |->
        [high |-> Cardinality({i \in DOMAIN output_stories :
                                 Get(output_stories[i], "Match Score", 0) >= 800}),
         medium |-> Cardinality({i \in DOMAIN output_stories :
                                   /\ 500 <= Get(output_stories[i], "Match Score", 0)
                                   /\ Get(output_stories[i], "Match Score", 0) < 800}),
         low |-> Cardinality({i \in DOMAIN output_stories :
                                Get(output_stories[i], "Match Score", 0) < 500})]],
   recommendations |-> <<Recommendation(consistency_result)>>]

(***************************************************************************)
(* The checker called with the outputs of bounded runs.                    *)
(***************************************************************************)
\* the stories of the outputs: two that share the identifier US-1 and one
\* without identifier
ConsistencyPool == {OutputStories[1], OutputStories[2], OutputStories[4]}

ConsistencyInit ==
  /\ ConsistencyIdle
  /\ DedupIdle
  /\ ExtractionIdle
  /\ ContextIdle
  /\ gemini_model = FALSE
  /\ HashIdle
  /\ WorkerIdle

\* check_consistency(input_hash, output_stories)
CallCheckConsistency ==
  /\ \E input_hash \in InputHashes, output_stories \in ListsOf(ConsistencyPool) :
       cons_call' = IF cache[input_hash] = CorruptFile
                    THEN [op |-> "check_consistency", input_hash |-> input_hash,
                          output_stories |-> output_stories, raised |-> "JSONDecodeError"]
                    ELSE [op |-> "check_consistency", input_hash |-> input_hash,
                          output_stories |-> output_stories,
                          result |-> CheckConsistency(cache[input_hash], output_stories)]
  /\ UNCHANGED <<cache, cache_writable, jobs, dedup_vars, extract_vars, hash_vars, worker_vars, context_vars>>

\* cache_output(input_hash, output_stories), metadata left at None
CallCacheOutput ==
  /\ \E input_hash \in InputHashes, output_stories \in ListsOf(ConsistencyPool) :
       IF cache_writable
       THEN /\ cache' = CacheOutput(cache, input_hash, output_stories, <<>>)
            /\ cons_call' = [op |-> "cache_output", input_hash |-> input_hash,
                             output_stories |-> output_stories, result |-> NoStory]
       ELSE /\ cache' = cache
            /\ cons_call' = [op |-> "cache_output", input_hash |-> input_hash,
                             output_stories |-> output_stories, raised |-> "OSError"]
  /\ UNCHANGED <<cache_writable, jobs, dedup_vars, extract_vars, hash_vars, worker_vars, context_vars>>

\* get_consistency_report(input_hash, output_stories)
CallGetConsistencyReport ==
  /\ \E input_hash \in InputHashes, output_stories \in ListsOf(ConsistencyPool) :
       IF cache[input_hash] = CorruptFile \/ ~cache_writable
       THEN /\ cache' = cache
            /\ cons_call' = [op |-> "get_consistency_report", input_hash |-> input_hash,
                             output_stories |-> output_stories,
                             raised |-> IF cache[input_hash] = CorruptFile
                                        THEN "JSONDecodeError" ELSE "OSError"]
       ELSE \E report \in {ConsistencyReport(input_hash, output_stories,
                                CheckConsistency(cache[input_hash], output_stories))} :
              /\ cache' = CacheOutput(cache, input_hash, output_stories,
                                      [consistency_report |-> report])
              /\ cons_call' = [op |-> "get_consistency_report", input_hash |-> input_hash,
                               output_stories |-> output_stories, result |-> report]
  /\ UNCHANGED <<cache_writable, jobs, dedup_vars, extract_vars, hash_vars, worker_vars, context_vars>>

ConsistencyNext == CallCheckConsistency \/ CallCacheOutput \/ CallGetConsistencyReport

SpecConsistency == ConsistencyInit /\ [][ConsistencyNext]_vars

\* the checker over a cache directory that may hold an entry written by an
\* earlier run, or a corrupt one, and that may not be writable
CacheFaultInit ==
  /\ \E previous \in {NoFile, CorruptFile} \cup
                     {CacheOutput([input_hash \in InputHashes |-> NoFile],
                                  CHOOSE input_hash \in InputHashes : TRUE, output_stories, <<>>)
                        [CHOOSE input_hash \in InputHashes : TRUE] :
                      output_stories \in ListsOf(ConsistencyPool)} :
       cache = [input_hash \in InputHashes |-> previous]
  /\ cache_writable \in BOOLEAN
  /\ cons_call = NoCall
  /\ jobs = <<>>
  /\ DedupIdle
  /\ ExtractionIdle
  /\ ContextIdle
  /\ gemini_model = FALSE
  /\ HashIdle
  /\ WorkerIdle

SpecCacheFault == CacheFaultInit /\ [][ConsistencyNext]_vars

\* C15: when reading or writing the consistency cache fails, the call into
\* the consistency checker does not raise to its caller.
C15_CacheFailureNotRaised ==
  cons_call.op \in {"check_consistency", "cache_output", "get_consistency_report"}
    => "raised" \notin DOMAIN cons_call

\* the calls that check an output against the cache
CheckOps == {"check_consistency", "get_consistency_report"}

\* the result of check_consistency within a call
CheckResult(call) ==
  IF call.op = "get_consistency_report" THEN call.result.consistency_check ELSE call.result

\* C8: when no cache entry exists for the input hash, the check returns
\* is_consistent = true and consistency_score = 1.0 for every output story
\* list, the empty list included.
C8_FirstRunConsistent ==
  [][ (cons_call'.op \in CheckOps /\ cache[cons_call'.input_hash] = NoFile)
        => /\ CheckResult(cons_call').is_consistent
           /\ CheckResult(cons_call').consistency_score = 1000 ]_vars

C8_Witness ==
  /\ cons_call.op = "check_consistency"
  /\ cache[cons_call.input_hash] = NoFile
  /\ cons_call.output_stories = <<>>
  /\ cons_call.result.is_consistent
  /\ cons_call.result.consistency_score = 1000

IsPermutationOf(stories, others) ==
  /\ Len(stories) = Len(others)
  /\ \E perm \in Permutations(1..Len(others)) : Permuted(others, perm) = stories

\* C9: after cache_output(H, O), with no other write to H in between, a
\* check_consistency(H, O') with O' any permutation of O returns
\* is_consistent = true with consistency_score = 1.0.
C9_CachedPermutationConsistent ==
  ( /\ cons_call.op = "check_consistency"
    /\ cache[cons_call.input_hash] # NoFile
    /\ IsPermutationOf(cons_call.output_stories,
                       JsonLoad(cache[cons_call.input_hash]).stories) )
    => /\ cons_call.result.is_consistent
       /\ cons_call.result.consistency_score = 1000

\* a step by a call of ops leaves the entry of its input hash holding its
\* output, and the check that follows it for the same input hash compares
\* against exactly that output
CacheFollows(ops) ==
  /\ cons_call'.op \in ops
       => /\ cache'[cons_call'.input_hash] # NoFile
          /\ JsonLoad(cache'[cons_call'.input_hash]).stories = cons_call'.output_stories
  /\ ( /\ cons_call.op \in ops
       /\ cons_call'.op \in CheckOps
       /\ cons_call'.input_hash = cons_call.input_hash )
       => /\ "cached_hash" \in DOMAIN CheckResult(cons_call')
          /\ CheckResult(cons_call').cached_hash = GenerateOutputHash(cons_call.output_stories)
          /\ CheckResult(cons_call').is_consistent
               <=> (GenerateOutputHash(cons_call'.output_stories)
                      = GenerateOutputHash(cons_call.output_stories))

\* C10 as stated: every consistency check for an input hash H with output O,
\* first run or repeat, consistent or not, leaves the cache entry for H
\* holding O, and the next check for H compares against exactly that output.
C10_EveryCheckUpdatesCache == [][CacheFollows(CheckOps)]_vars

\* C10, amended: every get_consistency_report for an input hash H with output
\* O, first run or repeat, consistent or not, leaves the cache entry for H
\* holding O, and the next check for H compares against exactly that output;
\* check_consistency on its own leaves the cache as it was.
C10_EveryReportUpdatesCache ==
  [][ /\ CacheFollows({"get_consistency_report"})
      /\ cons_call'.op = "check_consistency" => cache' = cache ]_vars

C10_Witness ==
  /\ cons_call.op = "get_consistency_report"
  /\ ~cons_call.result.consistency_check.is_consistent
  /\ JsonLoad(cache[cons_call.input_hash]).stories = cons_call.output_stories
  /\ cons_call.output_stories # <<>>

(***************************************************************************)
(* Two jobs with the same input hash inside get_consistency_report.  The   *)
(* method reads the cache in check_consistency and writes it in            *)
(* cache_output; nothing holds the entry between the two.                  *)
(***************************************************************************)
Jobs == {"job1", "job2"}

RaceInit ==
  /\ \E previous \in {NoFile} \cup
                     {CacheOutput([input_hash \in InputHashes |-> NoFile],
                                  CHOOSE input_hash \in InputHashes : TRUE, output_stories, <<>>)
                        [CHOOSE input_hash \in InputHashes : TRUE] :
                      output_stories \in ListsOf(ConsistencyPool)} :
       cache = [input_hash \in InputHashes |-> previous]
  /\ cache_writable = TRUE
  /\ cons_call = NoCall
  /\ jobs \in [Jobs -> [pc : {"start"}, input_hash : InputHashes,
                        output_stories : ListsOf(ConsistencyPool)]]
  /\ DedupIdle
  /\ ExtractionIdle
  /\ ContextIdle
  /\ gemini_model = FALSE
  /\ HashIdle
  /\ WorkerIdle

\* get_consistency_report up to the return of check_consistency
JobCheck ==
  /\ \E job \in Jobs :
       /\ jobs[job].pc = "start"
       /\ jobs' = [jobs EXCEPT ![job] =
                     [pc |-> "checked", input_hash |-> jobs[job].input_hash,
                      output_stories |-> jobs[job].output_stories,
                      cache_file |-> cache[jobs[job].input_hash],
                      consistency_result |->
                        CheckConsistency(cache[jobs[job].input_hash], jobs[job].output_stories)]]
  /\ UNCHANGED <<cache, cache_writable, cons_call, dedup_vars, extract_vars, hash_vars, worker_vars, context_vars>>

\* get_consistency_report from the report to the return of cache_output
JobCache ==
  /\ \E job \in Jobs :
       /\ jobs[job].pc = "checked"
       /\ cache' = CacheOutput(cache, jobs[job].input_hash, jobs[job].output_stories,
                               [consistency_report |->
                                  ConsistencyReport(jobs[job].input_hash,
                                                    jobs[job].output_stories,
                                                    jobs[job].consistency_result)])
       /\ jobs' = [jobs EXCEPT ![job].pc = "done"]
  /\ UNCHANGED <<cache_writable, cons_call, dedup_vars, extract_vars, hash_vars, worker_vars, context_vars>>

RaceNext == JobCheck \/ JobCache

SpecRace == RaceInit /\ [][RaceNext]_vars

\* the cache file a finished job left behind
WrittenBy(job) ==
  CacheOutput(cache, jobs[job].input_hash, jobs[job].output_stories,
              [consistency_report |->
                 ConsistencyReport(jobs[job].input_hash, jobs[job].output_stories,
                                   jobs[job].consistency_result)])[jobs[job].input_hash]

\* C11: two jobs with the same input hash inside get_consistency_report are
\* serialized: once both are done, one of them has compared its output with
\* the entry the other one wrote; they never both read the same old entry
\* (or both find none) and then both overwrite it.
C11_ReportsSerialized ==
  (DOMAIN jobs = Jobs /\ \A job \in Jobs : jobs[job].pc = "done")
    => \E first, second \in Jobs :
         /\ first # second
         /\ jobs[second].cache_file = WrittenBy(first)

(***************************************************************************)
(* deduplicate_and_score over candidates one of which cannot be merged.    *)
(***************************************************************************)
\* the candidate lists with one member whose 'requirements' is None
UnmergeableLists ==
  UNION { { [stories EXCEPT ![k] = Put(stories[k], "requirements=None", <<>>)] :
            k \in {i \in DOMAIN stories : "requirements" \notin DOMAIN stories[i]} } :
          stories \in CandidateLists }

FailureInit ==
  /\ similarity_threshold \in Thresholds
  /\ float_tie_up = FALSE
  /\ candidates \in UnmergeableLists
  /\ dedup_call = NoCall
  /\ unscored_stories = <<>>
  /\ dedup_result = <<>>
  /\ first_scored = <<>>
  /\ ExtractionIdle
  /\ ContextIdle
  /\ gemini_model = FALSE
  /\ HashIdle
  /\ ConsistencyIdle
  /\ WorkerIdle

FailureNext == Deduplicate

SpecFailure == FailureInit /\ [][FailureNext]_vars

\* the members of the groups whose merge fails
FailingMembers(stories) ==
  UNION { {CleanStories(SortByStoryId(stories))[group[m]] : m \in DOMAIN group} :
          group \in {g \in Range(FindDuplicates(CleanStories(SortByStoryId(stories)))) :
                       /\ Len(g) # 1
                       /\ \E m \in DOMAIN g :
                            HoldsNone(CleanStories(SortByStoryId(stories))[g[m]], "requirements")} }

\* C12: if merging one duplicate group fails, deduplicate_and_score still
\* returns a result for the whole run, and the members of the failing group
\* are in it unmerged with their original, unmodified scores.
C12_FailingGroupEmittedUnmerged ==
  (dedup_call.op = "deduplicate_and_score" /\ MergeRaises(dedup_call.args))
    => /\ "raised" \notin DOMAIN dedup_call
       /\ \A member \in FailingMembers(dedup_call.args) :
            \E k \in DOMAIN dedup_result :
              /\ Get(dedup_result[k], "User Story", <<>>) = Get(member, "User Story", <<>>)
              /\ Get(dedup_result[k], "User Story ID", <<>>) = Get(member, "User Story ID", <<>>)
              /\ Get(dedup_result[k], "Match Score", 500) = Get(member, "Match Score", 500)
              /\ "duplicate_count" \notin DOMAIN dedup_result[k]

(***************************************************************************)
(* The worker (main.py) and the VectorProcessor (vector_processor.py).     *)
(***************************************************************************)
RECURSIVE SplitOn(_, _, _, _)
\* the pieces of text.split(sep) from position i on, cur the piece begun
SplitOn(sep, text, i, cur) ==
  LET hits == {k \in i..(Len(text) - Len(sep) + 1) : SubSeq(text, k, k + Len(sep) - 1) = sep}
  IN  IF hits = {} THEN <<cur \o SubSeq(text, i, Len(text))>>
      ELSE LET first == CHOOSE k \in hits : \A h \in hits : k <= h
           IN  <<cur \o SubSeq(text, i, first - 1)>> \o SplitOn(sep, text, first + Len(sep), <<>>)

RECURSIVE DigitsValue(_)
\* the number a string of decimal digits denotes
DigitsValue(digits) ==
  IF digits = <<>> THEN 0
  ELSE 10 * DigitsValue(SubSeq(digits, 1, Len(digits) - 1))
       + (CHOOSE d \in 0..9 : IntToStr(d) = <<digits[Len(digits)]>>)

\* int(text): the value, or ValueError (ok FALSE) for a text that is no
\* optionally signed run of digits
ParseInt(text) ==
  LET stripped == StrStrip(text)
      signed == stripped # <<>> /\ stripped[1] \in {"-", "+"}
      digits == IF signed THEN Tail(stripped) ELSE stripped
  IN  IF digits # <<>> /\ \A i \in DOMAIN digits : digits[i] \in {"0","1","2","3","4","5","6","7","8","9"}
      THEN [ok |-> TRUE,
            value |-> IF signed /\ stripped[1] = "-" THEN 0 - DigitsValue(digits)
                      ELSE DigitsValue(digits)]
      ELSE [ok |-> FALSE, value |-> 0]

\* _estimate_tokens_from_text_length
EstimateTokensFromTextLength(char_count) == Max(1, char_count \div 4)

\* _should_vectorize, its try block: the three thresholds from the
\* environment, or the three defaults when one of them is no integer
VectorizeThresholds(env) ==
  LET min_tokens == ParseInt(Get(env, "VECTORIZE_MIN_TOKENS", <<"3","0","0","0","0">>))
      min_paragraphs == ParseInt(Get(env, "VECTORIZE_MIN_PARAGRAPHS", <<"8","0","0">>))
      min_docs == ParseInt(Get(env, "VECTORIZE_MIN_DOCS", <<"3">>))
  IN  IF min_tokens.ok /\ min_paragraphs.ok /\ min_docs.ok
      THEN [min_tokens |-> min_tokens.value, min_paragraphs |-> min_paragraphs.value,
            min_docs |-> min_docs.value]
      ELSE [min_tokens |-> 30000, min_paragraphs |-> 800, min_docs |-> 3]

\* a gate that asks for all three minima to be reached
ShouldVectorizeAll(docs, env) ==
  LET thresholds == VectorizeThresholds(env)
      total_chars == SumSeq(List([i \in 1..Len(docs) |-> Len(docs[i].content)]))
      total_paragraphs == SumSeq(List([i \in 1..Len(docs) |-> Len(docs[i].paragraphs)]))
  IN  [should_vectorize |-> /\ EstimateTokensFromTextLength(total_chars) >= thresholds.min_tokens
                            /\ total_paragraphs >= thresholds.min_paragraphs
                            /\ Len(docs) >= thresholds.min_docs,
       metrics |-> [doc_count |-> Len(docs), total_chars |-> total_chars,
                    estimated_tokens |-> EstimateTokensFromTextLength(total_chars),
                    total_paragraphs |-> total_paragraphs, thresholds |-> thresholds]]

\* _should_vectorize
ShouldVectorize(docs, env) ==
  LET thresholds == VectorizeThresholds(env)
      total_chars == SumSeq(List([i \in 1..Len(docs) |-> Len(docs[i].content)]))
      total_paragraphs == SumSeq(List([i \in 1..Len(docs) |-> Len(docs[i].paragraphs)]))
      doc_count == Len(docs)
      est_tokens == EstimateTokensFromTextLength(total_chars)
  IN  [should_vectorize |-> \/ est_tokens >= thresholds.min_tokens
                            \/ total_paragraphs >= thresholds.min_paragraphs
                            \/ doc_count >= thresholds.min_docs,
       metrics |-> [doc_count |-> doc_count, total_chars |-> total_chars,
                    estimated_tokens |-> est_tokens, total_paragraphs |-> total_paragraphs,
                    thresholds |-> thresholds]]

\* [x for x in items if ...]: the members of items at the positions kept,
\* in order
Select(items, kept) ==
  LET idx == SetToSortedSeq(kept)
  IN  List([k \in 1..Len(idx) |-> items[idx[k]]])

\* [p.strip() for p in text.split('\n\n') if p.strip()]
SplitParagraphs(text) ==
  LET pieces == SplitOn(<<"\n", "\n">>, text, 1, <<>>)
      stripped == List([i \in 1..Len(pieces) |-> StrStrip(pieces[i])])
  IN  Select(stripped, {i \in DOMAIN stripped : stripped[i] # <<>>})

\* download_and_extract: the documents of the job's blobs (directory markers
\* skipped); the function raises when there is none
DownloadAndExtract(uploaded) ==
  LET Document(blob) ==
        LET filename == SplitOn(<<"/">>, blob.name, 1, <<>>)[Len(SplitOn(<<"/">>, blob.name, 1, <<>>))]
            pieces == SplitOn(<<".">>, filename, 1, <<>>)
        IN  [filename |-> filename, file_type |-> StrLower(pieces[Len(pieces)]),
             content |-> blob.text, paragraphs |-> SplitParagraphs(blob.text)]
      files == Select(uploaded, {i \in DOMAIN uploaded :
                                   \/ uploaded[i].name = <<>>
                                   \/ uploaded[i].name[Len(uploaded[i].name)] # "/"})
  IN  List([i \in 1..Len(files) |-> Document(files[i])])

RECURSIVE ReSplitBlankFrom(_, _, _)
\* the pieces of re.split(r'\n\s*\n', text) from position i on: a separator
\* runs from a newline over white space to the last newline it can reach
ReSplitBlankFrom(text, i, cur) ==
  IF i > Len(text) THEN <<cur>>
  ELSE LET ends == {k \in (i + 1)..Len(text) :
                      text[k] = "\n" /\ \A j \in (i + 1)..(k - 1) : IsSpace(text[j])}
       IN  IF text[i] = "\n" /\ ends # {}
           THEN <<cur>> \o ReSplitBlankFrom(text, (CHOOSE k \in ends : \A j \in ends : j <= k) + 1, <<>>)
           ELSE ReSplitBlankFrom(text, i + 1, Append(cur, text[i]))

\* DocumentProcessor._extract_paragraphs: the stripped pieces longer than 10
ExtractParagraphs(text) ==
  LET pieces == ReSplitBlankFrom(text, 1, <<>>)
      stripped == List([i \in 1..Len(pieces) |-> StrStrip(pieces[i])])
  IN  Select(stripped, {i \in DOMAIN stripped : Len(stripped[i]) > 10})

\* DocumentProcessor.process_documents: the documents with content, their
\* paragraphs extracted anew (speaker labels and workflow analysis, which the
\* extraction does not read, are left out)
ProcessDocuments(docs) ==
  LET with_content == Select(docs, {i \in DOMAIN docs : docs[i].content # <<>>})
  IN  List([i \in 1..Len(with_content) |->
             [filename |-> with_content[i].filename, file_type |-> with_content[i].file_type,
              content |-> with_content[i].content,
              paragraphs |-> ExtractParagraphs(with_content[i].content)]])

\* 'embedding': None
NoEmbedding == <<>>

\* _build_naive_chunks_from_documents (of the metadata, size and
\* source_transcript are left out)
BuildNaiveChunksFromDocuments(docs) ==
  LET Chunks(doc) ==
        LET Chunk(idx) ==
              [id |-> doc.filename \o <<"_","p","_">> \o IntToStr(idx),
               text |-> StrStrip(doc.paragraphs[idx + 1]),
               embedding |-> NoEmbedding,
               metadata |-> [filename |-> doc.filename, chunk_index |-> idx,
                             total_chunks |-> Len(doc.paragraphs), file_type |-> doc.file_type]]
            indices == SetToSortedSeq({idx \in 0..(Len(doc.paragraphs) - 1) :
                                         StrStrip(doc.paragraphs[idx + 1]) # <<>>})
        IN  List([k \in 1..Len(indices) |-> Chunk(indices[k])])
  IN  Flatten(List([d \in 1..Len(docs) |-> Chunks(docs[d])]))

\* _create_semantic_chunks: Characters per chunk
max_chunk_size == 1000

RECURSIVE SemanticChunksFrom(_, _, _, _, _)
\* _create_semantic_chunks, the loop over the sentences from the k-th on
SemanticChunksFrom(sentences, k, current_chunk, chunk_size, chunks) ==
  IF k > Len(sentences)
  THEN IF StrStrip(current_chunk) # <<>>
       THEN Append(chunks, [text |-> StrStrip(current_chunk), type |-> "semantic",
                            index |-> Len(chunks)])
       ELSE chunks
  ELSE IF chunk_size + Len(sentences[k]) > max_chunk_size /\ current_chunk # <<>>
       THEN SemanticChunksFrom(sentences, k + 1, sentences[k], Len(sentences[k]),
                               Append(chunks, [text |-> StrStrip(current_chunk),
                                               type |-> "semantic", index |-> Len(chunks)]))
       ELSE SemanticChunksFrom(sentences, k + 1, current_chunk \o sentences[k] \o <<".", " ">>,
                               chunk_size + Len(sentences[k]) + 2, chunks)

\* _create_semantic_chunks
CreateSemanticChunks(transcript) ==
  IF transcript.paragraphs # <<>>
  THEN LET indices == SetToSortedSeq({i \in 0..(Len(transcript.paragraphs) - 1) :
                                        StrStrip(transcript.paragraphs[i + 1]) # <<>>})
       IN  List([k \in 1..Len(indices) |->
                  [text |-> StrStrip(transcript.paragraphs[indices[k] + 1]),
                   type |-> "paragraph", index |-> indices[k]]])
  ELSE SemanticChunksFrom(SplitOn(<<".", " ">>, transcript.content, 1, <<>>), 1, <<>>, 0, <<>>)

\* Gecko model dimension
GeckoDimension == 768

\* what get_embeddings answers for a text when it answers: a vector of the
\* model's dimension that depends on the text
ProviderEmbedding(text) ==
  List([i \in 1..GeckoDimension |-> IF i = 1 THEN Len(text) ELSE IF i = 2 THEN 1 ELSE 0])

\* _generate_embedding: the provider's vector, or the zero vector when
\* get_embeddings raises
GenerateEmbedding(text, up) ==
  IF up THEN ProviderEmbedding(text) ELSE List([i \in 1..GeckoDimension |-> 0])

\* vectorize_transcripts (of the metadata, size and source_transcript are
\* left out)
VectorizeTranscripts(transcripts, model, up) ==
  IF ~model THEN [vectorized |-> FALSE, chunks |-> transcripts]
  ELSE LET Vectorized(transcript) ==
             LET chunks == CreateSemanticChunks(transcript)
             IN  List([k \in 1..Len(chunks) |->
                        [id |-> transcript.filename \o <<"_","c","h","u","n","k","_">> \o IntToStr(k - 1),
                         text |-> chunks[k].text,
                         embedding |-> GenerateEmbedding(chunks[k].text, up),
                         metadata |-> [filename |-> transcript.filename, chunk_index |-> k - 1,
                                       total_chunks |-> Len(chunks),
                                       file_type |-> transcript.file_type]]])
           vectorized_chunks_ == Flatten(List([t \in 1..Len(transcripts) |-> Vectorized(transcripts[t])]))
       IN  [vectorized |-> TRUE, chunks |-> vectorized_chunks_,
            total_chunks |-> Len(vectorized_chunks_),
            embedding_dimension |-> IF vectorized_chunks_ # <<>>
                                    THEN Len(vectorized_chunks_[1].embedding) ELSE 0]

\* process_documents_with_ai, step 1: the chunks the extraction gets its
\* context from
ContextChunks(docs, env, model, up) ==
  IF ShouldVectorize(docs, env).should_vectorize
  THEN LET vectorization_result == VectorizeTranscripts(docs, model, up)
       IN  IF vectorization_result.vectorized
           THEN vectorization_result.chunks
           ELSE BuildNaiveChunksFromDocuments(docs)
  ELSE BuildNaiveChunksFromDocuments(docs)

(***************************************************************************)
(* process_job (main.py): one job from PROCESSING to COMPLETED or FAILED.  *)
(***************************************************************************)
\* the files uploaded for the jobs of the model: two paragraphs that give
\* stories, two paragraphs too short to be kept, one paragraph, and a
\* directory marker
BlobPool ==
  { [name |-> <<"u","/","a",".","t","x","t">>,
     text |-> <<"A","s"," ","a"," ","p","m",","," ","I"," ","n","e","e","d"," ","a","p","p","r","o","v","a","l","\n","\n","u","p","l","o","a","d"," ","a","s","s","e","t"," ","n","o","w">>],
    [name |-> <<"u","/","b",".","t","x","t">>,
     text |-> <<"o","k","\n"," ","\n","f","i","n","e">>],
    [name |-> <<"u","/","c",".","T","X","T">>,
     text |-> <<"w","e"," ","m","u","s","t"," ","t","a","g"," ","a","s","s","e","t","s">>],
    [name |-> <<"u","/">>, text |-> <<>>] }

\* the settings of the environment the jobs of the model run under: none,
\* and a token minimum that the larger uploads reach
JobEnvironments == { <<>>, ("VECTORIZE_MIN_TOKENS" :> <<"5">>) }

JobInit ==
  /\ environ \in JobEnvironments
  /\ blobs \in ListsOf(BlobPool)
  /\ embedding_model \in BOOLEAN
  /\ provider_up \in BOOLEAN
  /\ storage_up \in BOOLEAN
  /\ job_pc = "idle"
  /\ job_ref = [status |-> "QUEUED"]
  /\ job_documents = <<>>
  /\ decision = <<>>
  /\ vectorized_chunks = <<>>
  /\ processed_docs = <<>>
  /\ user_stories = <<>>
  /\ job_log = <<>>
  /\ ExtractionIdle
  /\ ContextIdle
  /\ gemini_model \in BOOLEAN
  /\ DedupIdle
  /\ HashIdle
  /\ ConsistencyIdle

\* process_job: job_ref.update({'status': 'PROCESSING'})
StartJob ==
  /\ job_pc = "idle"
  /\ job_ref' = [status |-> "PROCESSING"]
  /\ job_pc' = "download"
  /\ UNCHANGED <<environ, blobs, embedding_model, provider_up, storage_up, job_documents,
                 decision, vectorized_chunks, processed_docs, user_stories, job_log,
                 dedup_vars, extract_vars, hash_vars, consistency_vars, context_vars>>

\* process_job, step 1: download_and_extract, which raises when it finds no
\* document
DownloadDocuments ==
  /\ job_pc = "download"
  /\ job_documents' = DownloadAndExtract(blobs)
  /\ job_pc' = IF job_documents' = <<>> THEN "except" ELSE "process_documents_with_ai"
  /\ job_log' = Append(job_log, "download_and_extract")
  /\ UNCHANGED <<environ, blobs, embedding_model, provider_up, storage_up, job_ref,
                 decision, vectorized_chunks, processed_docs, user_stories,
                 dedup_vars, extract_vars, hash_vars, consistency_vars, context_vars>>

\* process_documents_with_ai, steps 1 and 2: the decision, the context
\* chunks and the processed documents
PrepareDocuments ==
  /\ job_pc = "process_documents_with_ai"
  /\ decision' = ShouldVectorize(job_documents, environ)
  /\ vectorized_chunks' = ContextChunks(job_documents, environ, embedding_model, provider_up)
  /\ processed_docs' = ProcessDocuments(job_documents)
  /\ job_pc' = "for doc in processed_docs"
  /\ job_log' = Append(job_log, IF decision'.should_vectorize
                                THEN "vectorize_transcripts" ELSE "_build_naive_chunks_from_documents")
  /\ UNCHANGED <<environ, blobs, embedding_model, provider_up, storage_up, job_ref,
                 job_documents, user_stories,
                 dedup_vars, extract_vars, hash_vars, consistency_vars, context_vars>>

\* the paragraphs of the document the loop is at
CurrentParagraphs ==
  IF docs_started = 0 THEN <<>> ELSE processed_docs[docs_started].paragraphs

\* process_documents_with_ai, step 3: the outer loop takes up the job's next
\* processed document
JobNextDocument ==
  /\ job_pc = "for doc in processed_docs"
  /\ paragraph_index >= Len(CurrentParagraphs)
  /\ docs_started < Len(processed_docs)
  /\ current_doc' = [filename |-> processed_docs[docs_started + 1].filename, started |-> TRUE]
  /\ docs_started' = docs_started + 1
  /\ paragraph_index' = 0
  /\ UNCHANGED <<story_counter, gemini_model, all_stories, extract_call,
                 dedup_vars, hash_vars, consistency_vars, worker_vars, context_vars>>

\* process_documents_with_ai, step 3: the inner loop extracts from the next
\* paragraph of the current document (the context chunks go into the prompt
\* only)
JobProcessParagraph ==
  /\ job_pc = "for doc in processed_docs"
  /\ paragraph_index < Len(CurrentParagraphs)
  /\ \E outcome \in GeminiOutcomes :
       \E extracted \in {ExtractStoryFromTextWithContext(CurrentParagraphs[paragraph_index + 1],
                           current_doc, paragraph_index, story_counter, outcome)} :
         IF StrStrip(CurrentParagraphs[paragraph_index + 1]) = <<>>
         THEN UNCHANGED <<story_counter, all_stories, extract_call>>
         ELSE /\ story_counter' = extracted.story_counter
              /\ all_stories' = IF extracted.story = NoStory THEN all_stories
                                ELSE Append(all_stories, extracted.story)
              /\ extract_call' = [op |-> "extract_story_from_text_with_context",
                                  text |-> CurrentParagraphs[paragraph_index + 1],
                                  doc |-> current_doc,
                                  index |-> paragraph_index, counter |-> story_counter,
                                  outcome |-> outcome, returned |-> extracted.story]
  /\ paragraph_index' = paragraph_index + 1
  /\ UNCHANGED <<gemini_model, current_doc, docs_started,
                 dedup_vars, hash_vars, consistency_vars, worker_vars, context_vars>>

\* process_documents_with_ai returns all_stories to process_job
ReturnStories ==
  /\ job_pc = "for doc in processed_docs"
  /\ paragraph_index >= Len(CurrentParagraphs)
  /\ docs_started = Len(processed_docs)
  /\ user_stories' = all_stories
  /\ job_pc' = "vectorize_transcripts"
  /\ job_log' = Append(job_log, "process_documents_with_ai")
  /\ UNCHANGED <<environ, blobs, embedding_model, provider_up, storage_up, job_ref,
                 job_documents, decision, vectorized_chunks, processed_docs,
                 dedup_vars, extract_vars, hash_vars, consistency_vars, context_vars>>

\* process_job: the vectorized chunks for the requirements, [] unless the
\* vectorization succeeds
VectorizeForRequirements ==
  /\ job_pc = "vectorize_transcripts"
  /\ \E vectorization_result \in {VectorizeTranscripts(job_documents, embedding_model, provider_up)} :
       vectorized_chunks' = IF vectorization_result.vectorized
                            THEN vectorization_result.chunks ELSE <<>>
  /\ job_pc' = "generate_and_upload_csv"
  /\ job_log' = Append(job_log, "vectorize_transcripts")
  /\ UNCHANGED <<environ, blobs, embedding_model, provider_up, storage_up, job_ref,
                 job_documents, decision, processed_docs, user_stories,
                 dedup_vars, extract_vars, hash_vars, consistency_vars, context_vars>>

\* process_job, steps 4 and 5: the requirements are converted and the CSV
\* files uploaded; nothing is uploaded for an empty list, and a failing
\* upload raises
ExportResults ==
  /\ job_pc = "generate_and_upload_csv"
  /\ job_pc' = IF user_stories # <<>> /\ ~storage_up THEN "except" ELSE "update"
  /\ job_log' = Append(Append(job_log, "convert_stories_to_requirements"),
                       "generate_and_upload_csv")
  /\ UNCHANGED <<environ, blobs, embedding_model, provider_up, storage_up, job_ref,
                 job_documents, decision, vectorized_chunks, processed_docs, user_stories,
                 dedup_vars, extract_vars, hash_vars, consistency_vars, context_vars>>

\* process_job, step 6: job_ref.update({'status': 'COMPLETED', ...})
CompleteJob ==
  /\ job_pc = "update"
  /\ job_ref' = [status |-> "COMPLETED", user_stories_count |-> Len(user_stories)]
  /\ job_pc' = "done"
  /\ UNCHANGED <<environ, blobs, embedding_model, provider_up, storage_up, job_documents,
                 decision, vectorized_chunks, processed_docs, user_stories, job_log,
                 dedup_vars, extract_vars, hash_vars, consistency_vars, context_vars>>

\* process_job, except Exception: job_ref.update({'status': 'FAILED', ...})
FailJob ==
  /\ job_pc = "except"
  /\ job_ref' = [status |-> "FAILED"]
  /\ job_pc' = "done"
  /\ UNCHANGED <<environ, blobs, embedding_model, provider_up, storage_up, job_documents,
                 decision, vectorized_chunks, processed_docs, user_stories, job_log,
                 dedup_vars, extract_vars, hash_vars, consistency_vars, context_vars>>

JobNext ==
  \/ StartJob
  \/ DownloadDocuments
  \/ PrepareDocuments
  \/ JobNextDocument
  \/ JobProcessParagraph
  \/ ReturnStories
  \/ VectorizeForRequirements
  \/ ExportResults
  \/ CompleteJob
  \/ FailJob

SpecJob == JobInit /\ [][JobNext]_vars

\* C13: when the embedding provider fails for a batch that qualifies for
\* vectorization, the chunks the extraction takes its context from carry no
\* vector at all: each chunk's embedding is absent, none is a substitute.
C13_ProviderFailureLeavesEmbeddingAbsent ==
  (job_pc = "for doc in processed_docs" /\ decision.should_vectorize /\ ~provider_up)
    => \A k \in DOMAIN vectorized_chunks : vectorized_chunks[k].embedding = NoEmbedding

\* the latest extraction call failed: the model raised, or its answer does
\* not parse into a story
ExtractionFailed ==
  /\ extract_call.op = "extract_story_from_text_with_context"
  /\ gemini_model
  /\ IF extract_call.outcome.raised THEN TRUE
     ELSE ExtractStoryFromText(extract_call.outcome.text, extract_call.doc,
                               extract_call.index) = NoStory

\* C14: for a text unit whose extraction call raises or answers with output
\* that does not parse into a story, extract_story_from_text_with_context
\* returns the pattern-based fallback story of that unit.
C14_FailedExtractionFallsBack ==
  ExtractionFailed
    => extract_call.returned = ExtractWithPatterns(extract_call.text, extract_call.doc,
                                                   extract_call.index, extract_call.counter)

\* C16: a job ends FAILED if and only if no candidate story at all was
\* extracted for the whole job: with no candidate it never ends COMPLETED,
\* with at least one it never ends FAILED.
C16_FailedIffNoCandidates ==
  job_pc = "done" => (job_ref.status = "FAILED" <=> all_stories = <<>>)

\* how often a stage occurs in a job's log
Occurrences(log, stage) == Cardinality({i \in DOMAIN log : log[i] = stage})

\* C17: in a job run that reaches its export, the deduplication stage and
\* then the consistency check each ran exactly once, after all candidates
\* were collected and before the story set was exported.
C17_DedupThenConsistencyOnce ==
  (\E k \in DOMAIN job_log : job_log[k] = "generate_and_upload_csv")
    => /\ Occurrences(job_log, "deduplicate_and_score") = 1
       /\ Occurrences(job_log, "get_consistency_report") = 1
       /\ \E collected, dedup, check, export \in DOMAIN job_log :
            /\ job_log[collected] = "process_documents_with_ai"
            /\ job_log[dedup] = "deduplicate_and_score"
            /\ job_log[check] = "get_consistency_report"
            /\ job_log[export] = "generate_and_upload_csv"
            /\ collected < dedup
            /\ dedup < check
            /\ check < export

\* C18: the list deduplicate_and_score returns is sorted by 'Match Score'
\* descending, and neighbours of equal score stand in ascending order of
\* their 'User Story ID'.
C18_SortedByScoreThenId ==
  dedup_call.op = "deduplicate_and_score"
    => \A k \in 1..(Len(dedup_result) - 1) :
         \/ dedup_result[k]["Match Score"] > dedup_result[k + 1]["Match Score"]
         \/ /\ dedup_result[k]["Match Score"] = dedup_result[k + 1]["Match Score"]
            /\ ~StrLess(Get(dedup_result[k + 1], "User Story ID", <<>>),
                        Get(dedup_result[k], "User Story ID", <<>>))

\* a run that returned neighbours of equal score with different identifiers,
\* and neighbours of different score
C18_Witness ==
  /\ dedup_call.op = "deduplicate_and_score"
  /\ \E k \in 1..(Len(dedup_result) - 1) :
       /\ dedup_result[k]["Match Score"] = dedup_result[k + 1]["Match Score"]
       /\ StrLess(Get(dedup_result[k], "User Story ID", <<>>),
                  Get(dedup_result[k + 1], "User Story ID", <<>>))
  /\ \E k \in 1..(Len(dedup_result) - 1) :
       dedup_result[k]["Match Score"] > dedup_result[k + 1]["Match Score"]

(***************************************************************************)
(* _should_vectorize over batches of documents and environments.           *)
(***************************************************************************)
\* the documents of the uploaded files
BatchPool ==
  UNION { Range(DownloadAndExtract(<<blob>>)) : blob \in BlobPool }

\* the batches of at most MaxBatch documents
Batches ==
  UNION { [1..n -> BatchPool] : n \in 0..MaxBatch }

\* the environments _should_vectorize is called under: nothing set, minima
\* around the sizes of the batches, a minimum of 1, and a setting that is no
\* integer
VectorizeEnvironments ==
  { <<>>,
    ("VECTORIZE_MIN_TOKENS" :> <<"1","0">>),
    ("VECTORIZE_MIN_TOKENS" :> <<"1","1">>),
    ("VECTORIZE_MIN_TOKENS" :> <<"1">>) @@ ("VECTORIZE_MIN_DOCS" :> <<"9">>),
    ("VECTORIZE_MIN_PARAGRAPHS" :> <<"3">>),
    ("VECTORIZE_MIN_PARAGRAPHS" :> <<"4">>) @@ ("VECTORIZE_MIN_DOCS" :> <<"4">>),
    ("VECTORIZE_MIN_DOCS" :> <<"2">>),
    ("VECTORIZE_MIN_DOCS" :> <<"1">>) @@ ("VECTORIZE_MIN_TOKENS" :> <<"x">>) }

VectorizeInit ==
  /\ environ \in VectorizeEnvironments
  /\ job_documents \in Batches
  /\ blobs = <<>>
  /\ embedding_model = TRUE
  /\ provider_up = TRUE
  /\ storage_up = TRUE
  /\ job_pc = "idle"
  /\ job_ref = [status |-> "QUEUED"]
  /\ decision = <<>>
  /\ vectorized_chunks = <<>>
  /\ processed_docs = <<>>
  /\ user_stories = <<>>
  /\ job_log = <<>>
  /\ ExtractionIdle
  /\ ContextIdle
  /\ gemini_model = FALSE
  /\ DedupIdle
  /\ HashIdle
  /\ ConsistencyIdle

\* decision = _should_vectorize(documents)
CallShouldVectorize ==
  /\ job_log = <<>>
  /\ decision' = ShouldVectorize(job_documents, environ)
  /\ job_log' = <<"_should_vectorize">>
  /\ UNCHANGED <<environ, blobs, embedding_model, provider_up, storage_up, job_pc, job_ref,
                 job_documents, vectorized_chunks, processed_docs, user_stories,
                 dedup_vars, extract_vars, hash_vars, consistency_vars, context_vars>>

VectorizeNext == CallShouldVectorize

SpecVectorize == VectorizeInit /\ [][VectorizeNext]_vars

\* the batch's estimated tokens reach the minimum in force
TokensReached ==
  EstimateTokensFromTextLength(
      SumSeq(List([i \in 1..Len(job_documents) |-> Len(job_documents[i].content)])))
    >= VectorizeThresholds(environ).min_tokens

\* the batch's paragraphs reach the minimum in force
ParagraphsReached ==
  SumSeq(List([i \in 1..Len(job_documents) |-> Len(job_documents[i].paragraphs)]))
    >= VectorizeThresholds(environ).min_paragraphs

\* the batch's documents reach the minimum in force
DocumentsReached ==
  Len(job_documents) >= VectorizeThresholds(environ).min_docs

\* C19: _should_vectorize returns should_vectorize true exactly when at least
\* one of the three conditions holds: estimated tokens >= minimum tokens,
\* paragraphs >= minimum paragraphs, documents >= minimum documents.
C19_VectorizeIffAnyThresholdMet ==
  job_log = <<"_should_vectorize">>
    => (decision.should_vectorize <=> (TokensReached \/ ParagraphsReached \/ DocumentsReached))

\* a batch that is vectorized because its paragraphs alone reach their
\* minimum
C19_Witness ==
  /\ job_log = <<"_should_vectorize">>
  /\ decision.should_vectorize
  /\ ParagraphsReached
  /\ ~TokensReached
  /\ ~DocumentsReached

\* the environment gives the setting a value that is an integer
ValidOverride(name) == name \in DOMAIN environ /\ ParseInt(environ[name]).ok

\* a setting that is overridden validly is in force with the value given
OverrideInForce(name, threshold) ==
  ValidOverride(name) => threshold = ParseInt(environ[name]).value

\* C28: each of the three vectorization thresholds is overridable
\* independently of the other two: a valid override of one threshold takes
\* effect whatever the values (valid, absent or malformed) given for the
\* other two.
C28_ThresholdsIndependentlyOverridable ==
  job_log = <<"_should_vectorize">>
    => /\ OverrideInForce("VECTORIZE_MIN_TOKENS", decision.metrics.thresholds.min_tokens)
       /\ OverrideInForce("VECTORIZE_MIN_PARAGRAPHS", decision.metrics.thresholds.min_paragraphs)
       /\ OverrideInForce("VECTORIZE_MIN_DOCS", decision.metrics.thresholds.min_docs)

(***************************************************************************)
(* deduplicate_and_score over the two approval stories of the manager.     *)
(***************************************************************************)
\* 'As a manager, I need to approve documents so that compliance is ensured'
\* with capability 'document approval'
DocumentsStory ==
  (("User Story" :> <<"A","s"," ","a"," ","m","a","n","a","g","e","r",","," ","I"," ","n","e","e","d"," ","t","o"," ","a","p","p","r","o","v","e"," ","d","o","c","u","m","e","n","t","s"," ","s","o"," ","t","h","a","t"," ","c","o","m","p","l","i","a","n","c","e"," ","i","s"," ","e","n","s","u","r","e","d">>) @@
      ("Capability" :> <<"d","o","c","u","m","e","n","t"," ","a","p","p","r","o","v","a","l">>))

\* 'As a manager, I need to approve submissions so that compliance is ensured'
\* with capability 'submission approval'
SubmissionsStory ==
  (("User Story" :> <<"A","s"," ","a"," ","m","a","n","a","g","e","r",","," ","I"," ","n","e","e","d"," ","t","o"," ","a","p","p","r","o","v","e"," ","s","u","b","m","i","s","s","i","o","n","s"," ","s","o"," ","t","h","a","t"," ","c","o","m","p","l","i","a","n","c","e"," ","i","s"," ","e","n","s","u","r","e","d">>) @@
      ("Capability" :> <<"s","u","b","m","i","s","s","i","o","n"," ","a","p","p","r","o","v","a","l">>))

\* the candidates of the example: the two approval stories, the first of
\* them once more as extracted from a second source, and an unrelated story
ExamplePool ==
  { DocumentsStory, SubmissionsStory,
    (("User Story" :> <<"A","s"," ","a"," ","m","a","n","a","g","e","r",","," ","I"," ","n","e","e","d"," ","t","o"," ","a","p","p","r","o","v","e"," ","d","o","c","u","m","e","n","t","s"," ","s","o"," ","t","h","a","t"," ","c","o","m","p","l","i","a","n","c","e"," ","i","s"," ","e","n","s","u","r","e","d">>) @@
     ("Capability" :> <<"d","o","c","u","m","e","n","t"," ","a","p","p","r","o","v","a","l">>) @@
     ("Source" :> <<"f","2">>)),
    (("User Story" :> <<"T","h","e"," ","s","y","s","t","e","m"," ","l","o","g","s"," ","e","v","e","r","y"," ","c","h","a","n","g","e"," ","f","o","r"," ","a","u","d","i","t">>) @@
     ("Capability" :> <<"a","u","d","i","t"," ","l","o","g">>)) }

\* the lists of at most MaxStories distinct candidates of the example,
\* numbered in arrival order
ExampleLists ==
  UNION { { [i \in 1..n |-> Put(stories[i], "User Story ID", StoryIds[i])] :
            stories \in {f \in [1..n -> ExamplePool] :
                           \A i, j \in 1..n : i # j => f[i] # f[j]} } :
          n \in 1..Min(MaxStories, Len(StoryIds)) }

ExampleInit ==
  /\ similarity_threshold \in Thresholds
  /\ float_tie_up = FALSE
  /\ candidates \in ExampleLists
  /\ dedup_call = NoCall
  /\ unscored_stories = <<>>
  /\ dedup_result = <<>>
  /\ first_scored = <<>>
  /\ ExtractionIdle
  /\ ContextIdle
  /\ gemini_model = FALSE
  /\ HashIdle
  /\ ConsistencyIdle
  /\ WorkerIdle

ExampleNext == Deduplicate

SpecExample == ExampleInit /\ [][ExampleNext]_vars

\* C20: with threshold 0.7 the two approval stories of the manager are
\* duplicates: deduplicate_and_score over the two of them returns a single
\* merged record with duplicate_count = 2.
C20_ApprovalStoriesMerged ==
  ( /\ dedup_call.op = "deduplicate_and_score"
    /\ similarity_threshold = <<7, 10>>
    /\ Len(dedup_call.args) = 2
    /\ \E i, j \in 1..2 :
         /\ dedup_call.args[i] = Put(DocumentsStory, "User Story ID", StoryIds[i])
         /\ dedup_call.args[j] = Put(SubmissionsStory, "User Story ID", StoryIds[j]) )
    => /\ "raised" \notin DOMAIN dedup_call
       /\ Len(dedup_result) = 1
       /\ Get(dedup_result[1], "duplicate_count", 1) = 2

(***************************************************************************)
(* _find_duplicates called on its own: the cleaned candidates in the       *)
(* order deduplicate_and_score hands them over, or in the order collected. *)
(***************************************************************************)
CallFindDuplicates ==
  /\ dedup_call = NoCall
  /\ \E stories \in {CleanStories(SortByStoryId(candidates)), CleanStories(candidates)} :
       /\ dedup_call' = [op |-> "_find_duplicates", args |-> stories]
       /\ dedup_result' = FindDuplicates(stories)
  /\ unscored_stories' = <<>>
  /\ UNCHANGED <<similarity_threshold, float_tie_up, candidates, first_scored, extract_vars, hash_vars, consistency_vars, worker_vars, context_vars>>

GroupingNext == CallFindDuplicates

SpecGrouping == DedupInit /\ [][GroupingNext]_vars

\* the positions that some group of groups holds
Grouped(groups) == UNION {Range(groups[g]) : g \in DOMAIN groups}

\* C21: _find_duplicates scans the candidates in the order given; each
\* candidate not yet in a group opens a group of itself and every later
\* candidate, not yet in a group, that is a duplicate of it.  So every group
\* has several members in ascending position, every member but the first is a
\* direct duplicate of the first, no candidate is in two groups, the groups
\* are ordered by their first members, and a later duplicate of a candidate
\* that is no member of an earlier group is in the group that candidate opens.
C21_GroupsByFirstMember ==
  dedup_call.op = "_find_duplicates"
    => /\ \A g \in DOMAIN dedup_result :
            /\ Len(dedup_result[g]) > 1
            /\ \A m \in 2..Len(dedup_result[g]) :
                 /\ dedup_result[g][m - 1] < dedup_result[g][m]
                 /\ AreStoriesSimilar(dedup_call.args[dedup_result[g][1]],
                                      dedup_call.args[dedup_result[g][m]])
       /\ \A g, h \in DOMAIN dedup_result :
            g < h => /\ Range(dedup_result[g]) \cap Range(dedup_result[h]) = {}
                     /\ dedup_result[g][1] < dedup_result[h][1]
       /\ Grouped(dedup_result) \subseteq DOMAIN dedup_call.args
       /\ \A i, j \in DOMAIN dedup_call.args :
            ( /\ i < j
              /\ AreStoriesSimilar(dedup_call.args[i], dedup_call.args[j])
              /\ \A g \in DOMAIN dedup_result :
                   dedup_result[g][1] < i => {i, j} \cap Range(dedup_result[g]) = {} )
              => \E g \in DOMAIN dedup_result :
                   dedup_result[g][1] = i /\ j \in Range(dedup_result[g])

\* three candidates of which the second is a duplicate of both others while
\* the first and the third are no duplicates: one group of the first two
C21_Witness ==
  /\ dedup_call.op = "_find_duplicates"
  /\ Len(dedup_call.args) = 3
  /\ AreStoriesSimilar(dedup_call.args[2], dedup_call.args[3])
  /\ ~AreStoriesSimilar(dedup_call.args[1], dedup_call.args[3])
  /\ dedup_result = << <<1, 2>> >>

(***************************************************************************)
(* Grouping by first member against transitive closure, under SpecDedup.   *)
(***************************************************************************)
\* the candidates of the latest deduplicate_and_score call as the engine
\* compares them: sorted by identifier and cleaned
ComparedCandidates == CleanStories(SortByStoryId(dedup_call.args))

\* A < B < C by identifier, A and B duplicates, B and C duplicates, A and C not
ChainOfThree(stories) ==
  /\ Len(stories) = 3
  /\ DistinctIds(stories)
  /\ AreStoriesSimilar(stories[1], stories[2])
  /\ AreStoriesSimilar(stories[2], stories[3])
  /\ ~AreStoriesSimilar(stories[1], stories[3])

\* C22: grouping is no transitive closure.  For three candidates with
\* identifiers A < B < C where A and B are duplicates, B and C are duplicates
\* and A and C are not, deduplicate_and_score returns two records: one that
\* merges A and B (A's identifier, duplicate_count 2, the merge hash of A and
\* B) and the unmerged record of C.
C22_ChainMergesFirstTwo ==
  ( /\ dedup_call.op = "deduplicate_and_score"
    /\ "raised" \notin DOMAIN dedup_call
    /\ ChainOfThree(ComparedCandidates) )
    => /\ Len(dedup_result) = 2
       /\ \E k \in 1..2 :
            /\ dedup_result[k]["User Story ID"] = ComparedCandidates[1]["User Story ID"]
            /\ Get(dedup_result[k], "duplicate_count", 1) = 2
            /\ Get(dedup_result[k], "merge_hash", <<>>)
                 = GenerateMergeHash(SubSeq(ComparedCandidates, 1, 2))
            /\ dedup_result[3 - k]["User Story ID"] = ComparedCandidates[3]["User Story ID"]
            /\ "duplicate_count" \notin DOMAIN dedup_result[3 - k]
            /\ dedup_result[3 - k]["User Story"] = ComparedCandidates[3]["User Story"]

\* such a chain of three was deduplicated
C22_Witness ==
  /\ dedup_call.op = "deduplicate_and_score"
  /\ "raised" \notin DOMAIN dedup_call
  /\ ChainOfThree(ComparedCandidates)
  /\ Len(dedup_result) = 2

\* the 'Source' values of the members that have one
MemberSources(story_group) ==
  {Get(story_group[m], "Source", <<>>) : m \in DOMAIN story_group} \ {<<>>}

\* C23: the source_files of a merged record is the sorted set union of the
\* members' source filenames: every contributing filename occurs exactly
\* once, also when several members of the group come from one file.
C23_SourceFilesSortedUnion ==
  dedup_call.op = "_merge_story_group"
    => dedup_result["source_files"] = SortedStrSet(MemberSources(dedup_call.args))

\* the latest call is a run of deduplicate_and_score that returned, over
\* candidates with pairwise-distinct identifiers
ReturnedOverDistinctIds ==
  /\ dedup_call.op = "deduplicate_and_score"
  /\ "raised" \notin DOMAIN dedup_call
  /\ DistinctIds(dedup_call.args)

\* the inputs at the given positions
InputsAt(positions) ==
  List([k \in 1..Cardinality(positions) |-> dedup_call.args[SetToSortedSeq(positions)[k]]])

\* the positions of the inputs that went into an output record: the group
\* its merge hash was made of, or the input whose identifier it kept
Contributors(record) ==
  IF "merge_hash" \in DOMAIN record
  THEN UNION {S \in SUBSET DOMAIN dedup_call.args :
                S # {} /\ GenerateMergeHash(InputsAt(S)) = record["merge_hash"]}
  ELSE {i \in DOMAIN dedup_call.args :
          Get(dedup_call.args[i], "User Story ID", <<>>) = Get(record, "User Story ID", <<>>)}

\* the number of inputs an output record stands for
DuplicateCount(record) == Get(record, "duplicate_count", 1)

\* C29: for every candidate list with pairwise-distinct identifiers, the
\* output of deduplicate_and_score accounts for every input exactly once:
\* the duplicate counts of the output records (1 for a record that was not
\* merged) add up to the number of inputs, no input is dropped, and none
\* contributes to two output records.
C29_EveryInputAccountedOnce ==
  ReturnedOverDistinctIds
    => /\ SumSeq(List([k \in DOMAIN dedup_result |-> DuplicateCount(dedup_result[k])]))
            = Len(dedup_call.args)
       /\ UNION {Contributors(dedup_result[k]) : k \in DOMAIN dedup_result}
            = DOMAIN dedup_call.args
       /\ \A k, l \in DOMAIN dedup_result :
            k # l => Contributors(dedup_result[k]) \cap Contributors(dedup_result[l]) = {}
       /\ \A k \in DOMAIN dedup_result :
            Cardinality(Contributors(dedup_result[k])) = DuplicateCount(dedup_result[k])

\* a run over three candidates that merged two of them and kept the third
C29_Witness ==
  /\ ReturnedOverDistinctIds
  /\ Len(dedup_call.args) = 3
  /\ Len(dedup_result) = 2
  /\ \E k, l \in DOMAIN dedup_result :
       /\ DuplicateCount(dedup_result[k]) = 2 /\ Cardinality(Contributors(dedup_result[k])) = 2
       /\ "merge_hash" \notin DOMAIN dedup_result[l]
       /\ Cardinality(Contributors(dedup_result[l])) = 1

(***************************************************************************)
(* _merge_text_fields called on its own.                                   *)
(***************************************************************************)
MaxTexts == 3

\* the texts handed over: '', '  ', 'd', 'a b', 'a b. c', ' c .d', 'a b.c. e'
TextPool ==
  { <<>>,
    <<" "," ">>,
    <<"d">>,
    <<"a"," ","b">>,
    <<"a"," ","b","."," ","c">>,
    <<" ","c"," ",".","d">>,
    <<"a"," ","b",".","c","."," ","e">> }

MergeTextIdle ==
  /\ DedupIdle
  /\ ExtractionIdle
  /\ ContextIdle
  /\ gemini_model = FALSE
  /\ HashIdle
  /\ ConsistencyIdle
  /\ WorkerIdle

CallMergeTextFields ==
  /\ \E n \in 0..MaxTexts :
       \E texts \in [1..n -> TextPool] :
         /\ dedup_call' = [op |-> "_merge_text_fields", args |-> texts]
         /\ dedup_result' = MergeTextFields(texts)
  /\ UNCHANGED <<similarity_threshold, float_tie_up, candidates, unscored_stories, first_scored, extract_vars, hash_vars, consistency_vars, worker_vars, context_vars>>

MergeTextNext == CallMergeTextFields

SpecMergeText == MergeTextIdle /\ [][MergeTextNext]_vars

\* the texts that are neither empty nor blank
NonBlank(texts) == SelectSeq(texts, LAMBDA t : StrStrip(t) # <<>>)

\* the non-empty trimmed sentences of a text
Sentences(text) ==
  {StrStrip(piece) : piece \in Range(StrSplitDot(text))} \ {<<>>}

\* merged is base followed by pieces ". <sentence>", and no such sentence
\* occurs in the text that stands before its piece
AppendedOnlyNew(merged, base) ==
  /\ Len(merged) >= Len(base)
  /\ SubSeq(merged, 1, Len(base)) = base
  /\ \E pieces \in {StrSplitDot(SubSeq(merged, Len(base) + 1, Len(merged)))} :
       /\ pieces[1] = <<>>
       /\ \A k \in 2..Len(pieces) :
            /\ Len(pieces[k]) >= 2
            /\ pieces[k][1] = " "
            /\ StrStrip(pieces[k]) = Tail(pieces[k])
            /\ ~IsSubstring(Tail(pieces[k]),
                            SubSeq(merged, 1,
                                   Len(base) + SumSeq(List([m \in 1..(k - 2) |-> 1 + Len(pieces[m + 1])]))))

\* the merged text covers the texts: it starts with one of the longest texts
\* of among, holds every sentence of every text, and appended only new ones
CoversTexts(merged, texts, among) ==
  /\ \E b \in DOMAIN among :
       /\ \A t \in DOMAIN among : Len(among[t]) <= Len(among[b])
       /\ AppendedOnlyNew(merged, among[b])
  /\ \A t \in DOMAIN texts : \A sentence \in Sentences(texts[t]) : IsSubstring(sentence, merged)

\* C24 as stated: for a list of texts with at least one non-blank text,
\* _merge_text_fields returns a text that starts with a longest input text and
\* in which every non-empty trimmed sentence of every input text occurs; a
\* sentence already occurring in the text built so far is not appended again.
C24_StartsWithLongestInput ==
  (dedup_call.op = "_merge_text_fields" /\ NonBlank(dedup_call.args) # <<>>)
    => CoversTexts(dedup_result, dedup_call.args, dedup_call.args)

\* C24: for a list of texts with at least one non-blank text,
\* _merge_text_fields returns a text that starts with a longest of the
\* non-blank input texts (blank texts are dropped before the base is chosen)
\* and in which every non-empty trimmed sentence of every input text occurs;
\* a sentence already occurring in the text built so far is not appended again.
C24_StartsWithLongestNonBlank ==
  (dedup_call.op = "_merge_text_fields" /\ NonBlank(dedup_call.args) # <<>>)
    => CoversTexts(dedup_result, dedup_call.args, NonBlank(dedup_call.args))

\* ['a b. c', ' c .d'] merged: 'c' is already there, 'd' is appended
C24_Witness ==
  /\ dedup_call.op = "_merge_text_fields"
  /\ dedup_call.args = << <<"a"," ","b","."," ","c">>, <<" ","c"," ",".","d">> >>
  /\ dedup_result = <<"a"," ","b","."," ","c","."," ","d">>

(***************************************************************************)
(* VectorProcessor: retrieval of context chunks (vector_processor.py).     *)
(***************************************************************************)
RECURSIVE SumOver(_, _, _)
\* the sum of f[lo] .. f[hi], taken by halves
SumOver(f, lo, hi) ==
  IF lo > hi THEN 0
  ELSE IF lo = hi THEN f[lo]
  ELSE SumOver(f, lo, (lo + hi) \div 2) + SumOver(f, (lo + hi) \div 2 + 1, hi)

\* np.dot(vec1, vec2)
DotProduct(vec1, vec2) ==
  SumOver([i \in DOMAIN vec1 |-> vec1[i] * vec2[i]], 1, Len(vec1))

\* _cosine_similarity: dot / (norm1 * norm2), kept as the dot product and the
\* two squared norms; 0.0 when a norm is 0
CosineSimilarity(vec1, vec2) ==
  IF DotProduct(vec1, vec1) = 0 \/ DotProduct(vec2, vec2) = 0
  THEN [dot |-> 0, norm1_sq |-> 1, norm2_sq |-> 1]
  ELSE [dot |-> DotProduct(vec1, vec2), norm1_sq |-> DotProduct(vec1, vec1),
        norm2_sq |-> DotProduct(vec2, vec2)]

\* a > b for two similarities to the same query vector (the provider's
\* vectors have no negative component)
SimilarityGreater(a, b) ==
  a.dot * a.dot * b.norm2_sq > b.dot * b.dot * a.norm2_sq

\* similarities.sort(key=lambda x: x[0], reverse=True): the chunks by
\* descending similarity, equal ones in their order
SortBySimilarity(items, sims) ==
  StableSort(items, List([i \in 1..Len(items) |->
                           Cardinality({j \in 1..Len(items) : SimilarityGreater(sims[j], sims[i])})]))

\* find_similar_chunks, the try block: the chunks that carry an embedding by
\* descending similarity to the query's embedding, the first top_k of them
RankByEmbedding(query_embedding, embedded, top_k) ==
  Slice(SortBySimilarity(embedded,
                         List([i \in 1..Len(embedded) |->
                                CosineSimilarity(query_embedding, embedded[i].embedding)])),
        0, top_k)

\* find_similar_chunks; in_loop: the caller runs on an event loop, where
\* asyncio.run raises RuntimeError and the except branch returns
FindSimilarChunks(query, chunks, top_k, model, up, in_loop) ==
  IF ~model \/ chunks = <<>> THEN Slice(chunks, 0, top_k)
  ELSE IF in_loop THEN Slice(chunks, 0, top_k)
  ELSE RankByEmbedding(GenerateEmbedding(query, up),
                       Select(chunks, {i \in DOMAIN chunks : chunks[i].embedding # NoEmbedding}),
                       top_k)

\* if ... not in context_chunks: context_chunks.append(...)
AppendNew(context_chunks, chunk) ==
  IF chunk \in Range(context_chunks) THEN context_chunks ELSE Append(context_chunks, chunk)

RECURSIVE AddAdjacent(_, _, _, _, _)
\* get_context_for_extraction, the loop over range(max(0, chunk_index - 1),
\* min(len(same_transcript_chunks), chunk_index + 2)) from i on
AddAdjacent(same_transcript_chunks, chunk_index, i, stop, context_chunks) ==
  IF i >= stop THEN context_chunks
  ELSE AddAdjacent(same_transcript_chunks, chunk_index, i + 1, stop,
                   IF i # chunk_index
                   THEN AppendNew(context_chunks, same_transcript_chunks[i + 1])
                   ELSE context_chunks)

\* get_context_for_extraction, one pass of the loop over similar_chunks:
\* the chunk itself, then the chunks next to it in its transcript
WithAdjacent(chunk, same_transcript_chunks, context_chunks) ==
  AddAdjacent(same_transcript_chunks, chunk.metadata.chunk_index,
              Max(0, chunk.metadata.chunk_index - 1),
              Min(Len(same_transcript_chunks), chunk.metadata.chunk_index + 2),
              Append(context_chunks, chunk))

RECURSIVE ContextFrom(_, _, _, _)
\* get_context_for_extraction, the loop over similar_chunks from the k-th on
ContextFrom(similar_chunks, k, chunks, context_chunks) ==
  IF k > Len(similar_chunks) THEN context_chunks
  ELSE ContextFrom(similar_chunks, k + 1, chunks,
                   WithAdjacent(similar_chunks[k],
                                Select(chunks, {i \in DOMAIN chunks :
                                                  chunks[i].metadata.filename
                                                    = similar_chunks[k].metadata.filename}),
                                context_chunks))

\* get_context_for_extraction
GetContextForExtraction(user_story, chunks, context_window, model, up, in_loop) ==
  IF chunks = <<>> THEN <<>>
  ELSE Slice(ContextFrom(FindSimilarChunks(user_story, chunks, context_window, model, up, in_loop),
                         1, chunks, <<>>),
             0, context_window * 2)

\* the largest top_k and context_window of the calls
MaxWindow == 2

\* two transcripts with paragraphs: 'tag assets', 'approve assets',
\* 'upload files' in a.txt, 'review tags', 'ok' in b.txt
ContextDocuments ==
  { [filename |-> <<"a",".","t","x","t">>, file_type |-> <<"t","x","t">>,
     content |-> <<"t","a","g"," ","a","s","s","e","t","s","\n","\n","a","p","p","r","o","v","e"," ","a","s","s","e","t","s","\n","\n","u","p","l","o","a","d"," ","f","i","l","e","s">>,
     paragraphs |-> << <<"t","a","g"," ","a","s","s","e","t","s">>,
                       <<"a","p","p","r","o","v","e"," ","a","s","s","e","t","s">>,
                       <<"u","p","l","o","a","d"," ","f","i","l","e","s">> >>],
    [filename |-> <<"b",".","t","x","t">>, file_type |-> <<"t","x","t">>,
     content |-> <<"r","e","v","i","e","w"," ","t","a","g","s","\n","\n","o","k">>,
     paragraphs |-> << <<"r","e","v","i","e","w"," ","t","a","g","s">>, <<"o","k">> >>] }

\* the batches of transcripts a job hands to step 1: none, one, or both in
\* either order
ContextBatches ==
  {<<>>} \cup { <<d>> : d \in ContextDocuments }
         \cup { <<d, e>> : <<d, e>> \in {p \in ContextDocuments \X ContextDocuments : p[1] # p[2]} }

\* the environments of step 1: the defaults, under which the batches are not
\* vectorized, and a document minimum of 1, under which they are
ContextEnvironments == { <<>>, ("VECTORIZE_MIN_DOCS" :> <<"1">>) }

\* what is looked up: 'approve assets', 'Review tags now', 'ok'
ContextQueries ==
  { <<"a","p","p","r","o","v","e"," ","a","s","s","e","t","s">>,
    <<"R","e","v","i","e","w"," ","t","a","g","s"," ","n","o","w">>,
    <<"o","k">> }

\* a worker after step 1 of process_documents_with_ai: the chunk pool built
\* from the batch, vectorized or naive
ContextInit ==
  /\ environ \in ContextEnvironments
  /\ job_documents \in ContextBatches
  /\ embedding_model \in BOOLEAN
  /\ provider_up \in BOOLEAN
  /\ vectorized_chunks = ContextChunks(job_documents, environ, embedding_model, provider_up)
  /\ decision = ShouldVectorize(job_documents, environ)
  /\ blobs = <<>>
  /\ storage_up = TRUE
  /\ job_pc = "idle"
  /\ job_ref = [status |-> "PROCESSING"]
  /\ processed_docs = <<>>
  /\ user_stories = <<>>
  /\ job_log = <<>>
  /\ ContextIdle
  /\ ExtractionIdle
  /\ gemini_model = FALSE
  /\ DedupIdle
  /\ HashIdle
  /\ ConsistencyIdle

\* find_similar_chunks(query, vectorized_chunks, top_k)
CallFindSimilarChunks ==
  /\ context_call = NoCall
  /\ \E query \in ContextQueries, top_k \in 1..MaxWindow, in_loop \in BOOLEAN :
       /\ context_call' = [op |-> "find_similar_chunks", query |-> query, top_k |-> top_k,
                           in_loop |-> in_loop]
       /\ context_result' = FindSimilarChunks(query, vectorized_chunks, top_k,
                                              embedding_model, provider_up, in_loop)
  /\ UNCHANGED <<dedup_vars, extract_vars, hash_vars, consistency_vars, worker_vars>>

\* get_context_for_extraction(user_story, vectorized_chunks, context_window)
CallGetContextForExtraction ==
  /\ context_call = NoCall
  /\ \E query \in ContextQueries, context_window \in 1..MaxWindow, in_loop \in BOOLEAN :
       /\ context_call' = [op |-> "get_context_for_extraction", query |-> query,
                           top_k |-> context_window, in_loop |-> in_loop]
       /\ context_result' = GetContextForExtraction(query, vectorized_chunks, context_window,
                                                    embedding_model, provider_up, in_loop)
  /\ UNCHANGED <<dedup_vars, extract_vars, hash_vars, consistency_vars, worker_vars>>

ContextNext == CallFindSimilarChunks \/ CallGetContextForExtraction

SpecContext == ContextInit /\ [][ContextNext]_vars

\* no chunk of the pool carries an embedding
PoolWithoutEmbeddings ==
  /\ vectorized_chunks # <<>>
  /\ \A i \in DOMAIN vectorized_chunks : vectorized_chunks[i].embedding = NoEmbedding

\* the number of the query's words that are present in the chunk's text
WordOverlap(query, text) ==
  Cardinality({k \in DOMAIN StrSplit(StrLower(query)) :
                 IsSubstring(StrSplit(StrLower(query))[k], StrLower(text))})

\* a chunk ranks before another by word overlap: more of the query's words,
\* or as many and a smaller chunk index
OverlapBefore(query, c, d) ==
  \/ WordOverlap(query, c.text) > WordOverlap(query, d.text)
  \/ /\ WordOverlap(query, c.text) = WordOverlap(query, d.text)
     /\ c.metadata.chunk_index < d.metadata.chunk_index

\* the list is the start of a ranking of the pool by word overlap: it has
\* top_k chunks of the pool (all of a smaller pool), in rank order, and no
\* chunk left out ranks before one of them
IsOverlapRanking(query, pool, top_k, result) ==
  /\ Len(result) = Min(top_k, Len(pool))
  /\ Range(result) \subseteq Range(pool)
  /\ \A i, j \in DOMAIN result : i < j => ~OverlapBefore(query, result[j], result[i])
  /\ \A c \in Range(pool) \ Range(result) :
       \A i \in DOMAIN result : ~OverlapBefore(query, c, result[i])

\* C25: when the chunks of the pool carry no embedding, find_similar_chunks
\* returns the top K chunks ranked by the number of query words present in
\* the chunk text, descending, ties by ascending chunk index, whether or not
\* an embedding model is available.
C25_RanksByWordOverlap ==
  (context_call.op = "find_similar_chunks" /\ PoolWithoutEmbeddings)
    => IsOverlapRanking(context_call.query, vectorized_chunks, context_call.top_k, context_result)

\* the latest call is one of get_context_for_extraction
ContextCalled == context_call.op = "get_context_for_extraction"

\* the top matches of the latest call
TopMatches ==
  FindSimilarChunks(context_call.query, vectorized_chunks, context_call.top_k,
                    embedding_model, provider_up, context_call.in_loop)

\* the result has at most 2*K chunks
AtMostTwiceWindow == Len(context_result) <= 2 * context_call.top_k

\* no chunk occurs twice in the result
NoChunkTwice ==
  \A i, j \in DOMAIN context_result : i # j => context_result[i] # context_result[j]

\* every chunk of the result that is no top match is next to a top match
\* of its own document
NeighboursAdjacent ==
  \A c \in Range(context_result) \ Range(TopMatches) :
    \E t \in Range(TopMatches) :
      /\ c.metadata.filename = t.metadata.filename
      /\ c.metadata.chunk_index - t.metadata.chunk_index \in {-1, 1}

\* C26: for every query, chunk pool and window K, get_context_for_extraction
\* returns at most 2*K chunks, no chunk occurs twice in the result, and every
\* chunk added as a neighbour belongs to the same source document as the top
\* match it was added for and has a chunk index adjacent to it.
C26_BoundedDistinctAdjacent ==
  ContextCalled => (AtMostTwiceWindow /\ NoChunkTwice /\ NeighboursAdjacent)

(***************************************************************************)
(* _create_semantic_chunks over transcripts without a paragraph list.      *)
(***************************************************************************)
\* the largest number of sentences of a transcript
MaxSentences == 3

\* the lengths of the sentences: short, half the chunk size, and at the
\* chunk size or just below it
SentenceLengths == {2, 499, 998, 1000}

\* the i-th sentence of a transcript, of the given length: one letter
\* repeated
SentenceOf(i, length) == [k \in 1..length |-> LowerLetters[i]]

RECURSIVE SentencesText(_)
\* the sentences as they stand in a text, ". " between them
SentencesText(sentences) ==
  IF sentences = <<>> THEN <<>>
  ELSE IF Len(sentences) = 1 THEN sentences[1]
  ELSE sentences[1] \o <<".", " ">> \o SentencesText(Tail(sentences))

\* the transcripts chunked: every text of at most MaxSentences sentences
\* without paragraphs, and one transcript that has paragraphs
ChunkedTranscripts ==
  { [filename |-> <<"t",".","t","x","t">>, file_type |-> <<"t","x","t">>,
     content |-> SentencesText([i \in DOMAIN lengths |-> SentenceOf(i, lengths[i])]),
     paragraphs |-> <<>>] :
      lengths \in UNION { [1..n -> SentenceLengths] : n \in 0..MaxSentences } }
   \cup { d \in ContextDocuments : Len(d.paragraphs) = 2 }

\* a processor handed one transcript
ChunkingInit ==
  /\ job_documents \in { <<t>> : t \in ChunkedTranscripts }
  /\ environ = <<>>
  /\ blobs = <<>>
  /\ embedding_model = TRUE
  /\ provider_up = TRUE
  /\ storage_up = TRUE
  /\ job_pc = "idle"
  /\ job_ref = [status |-> "PROCESSING"]
  /\ decision = <<>>
  /\ vectorized_chunks = <<>>
  /\ processed_docs = <<>>
  /\ user_stories = <<>>
  /\ job_log = <<>>
  /\ ContextIdle
  /\ ExtractionIdle
  /\ gemini_model = FALSE
  /\ DedupIdle
  /\ HashIdle
  /\ ConsistencyIdle

\* chunks = self._create_semantic_chunks(transcript)
CallCreateSemanticChunks ==
  /\ context_call = NoCall
  /\ context_call' = [op |-> "_create_semantic_chunks", args |-> <<>>]
  /\ context_result' = CreateSemanticChunks(job_documents[1])
  /\ UNCHANGED <<dedup_vars, extract_vars, hash_vars, consistency_vars, worker_vars>>

ChunkingNext == CallCreateSemanticChunks

SpecChunking == ChunkingInit /\ [][ChunkingNext]_vars

\* the members of a list that are not empty
NonEmpty(items) == Select(items, {i \in DOMAIN items : items[i] # <<>>})

\* the sentences of a text, the empty ones left out
SentencesIn(text) == NonEmpty(SplitOn(<<".", " ">>, text, 1, <<>>))

\* a sentence without the full stop that closes a chunk
WithoutFullStop(sentence) ==
  IF sentence # <<>> /\ sentence[Len(sentence)] = "."
  THEN SubSeq(sentence, 1, Len(sentence) - 1) ELSE sentence

\* the pieces with the last one freed of the full stop that closes a chunk
LastWithoutFullStop(pieces) ==
  List([i \in DOMAIN pieces |-> IF i = Len(pieces) THEN WithoutFullStop(pieces[i]) ELSE pieces[i]])

\* the sentences a chunk holds: its text at the sentence boundaries, the
\* empty ones left out
ChunkSentences(text) == NonEmpty(LastWithoutFullStop(SplitOn(<<".", " ">>, text, 1, <<>>)))

\* the transcript of the latest call has no paragraph list and no sentence
\* longer than the chunk size
ChunkedBySentences ==
  /\ context_call.op = "_create_semantic_chunks"
  /\ job_documents[1].paragraphs = <<>>
  /\ \A s \in Range(SentencesIn(job_documents[1].content)) : Len(s) <= max_chunk_size

\* C27: when a document has no paragraph list, every chunk produced by
\* _create_semantic_chunks from a text whose sentences are each at most 1000
\* characters long has at most 1000 characters, and the chunks taken in order
\* contain every sentence of the text exactly once in the original order with
\* sentence boundaries preserved.
C27_ChunksBoundedAndComplete ==
  ChunkedBySentences
    => /\ \A k \in DOMAIN context_result : Len(context_result[k].text) <= max_chunk_size
       /\ Flatten(List([k \in DOMAIN context_result |-> ChunkSentences(context_result[k].text)]))
            = SentencesIn(job_documents[1].content)

(***************************************************************************)
(* check_consistency against a cached run whose output drifted.            *)
(***************************************************************************)
\* a story and what a later run may return in its place or beside it:
\*   {"User Story ID": "US-1", "User Story": "ab", "Category": "wf", "Priority": "hi", "Match Score": 0.8, "Tags": ["t1"], "Content Hash": "h1"}
\*   the same with "Tags": ["t1", "t2"]
\*   the same with "Match Score": 0.79
\*   the same with "User Story": "AB"
\*   the same with "User Story": "xy"
\*   a story numbered US-2
DriftStory ==
  ("User Story ID" :> <<"U","S","-","1">>) @@ ("User Story" :> <<"a","b">>)
    @@ ("Category" :> <<"w","f">>) @@ ("Priority" :> <<"h","i">>) @@ ("Match Score" :> 800)
    @@ ("Tags" :> << <<"t","1">> >>) @@ ("Content Hash" :> <<"h","1">>)

DriftPool ==
  { DriftStory,
    Put(DriftStory, "Tags", << <<"t","1">>, <<"t","2">> >>),
    Put(DriftStory, "Match Score", 790),
    Put(DriftStory, "User Story", <<"A","B">>),
    Put(DriftStory, "User Story", <<"x","y">>),
    Put(DriftStory, "User Story ID", <<"U","S","-","2">>) }

\* cache_output(input_hash, output_stories) on a writable cache
CacheRun ==
  /\ cache_writable
  /\ \E input_hash \in InputHashes, output_stories \in ListsOf(DriftPool) :
       /\ cache' = CacheOutput(cache, input_hash, output_stories, <<>>)
       /\ cons_call' = [op |-> "cache_output", input_hash |-> input_hash,
                        output_stories |-> output_stories, result |-> NoStory]
  /\ UNCHANGED <<cache_writable, jobs, dedup_vars, extract_vars, hash_vars, worker_vars, context_vars>>

\* check_consistency(input_hash, output_stories) of a later run
CheckRun ==
  /\ \E input_hash \in InputHashes, output_stories \in ListsOf(DriftPool) :
       /\ cache[input_hash] # CorruptFile
       /\ cons_call' = [op |-> "check_consistency", input_hash |-> input_hash,
                        output_stories |-> output_stories,
                        result |-> CheckConsistency(cache[input_hash], output_stories)]
  /\ UNCHANGED <<cache, cache_writable, jobs, dedup_vars, extract_vars, hash_vars, worker_vars, context_vars>>

DriftNext == CacheRun \/ CheckRun

SpecDrift == ConsistencyInit /\ [][DriftNext]_vars

\* the latest call is a check that reported is_consistent = false
ReportedInconsistent ==
  /\ cons_call.op = "check_consistency"
  /\ "result" \in DOMAIN cons_call
  /\ ~cons_call.result.is_consistent

\* the differences reported name a story added, removed or significantly
\* changed
DifferencesReported ==
  \/ cons_call.result.differences.added_stories > 0
  \/ cons_call.result.differences.removed_stories > 0
  \/ cons_call.result.differences.changed_stories # {}

\* C30 as stated: whenever check_consistency reports is_consistent = false,
\* the reported consistency_score is strictly below 1.0 and the reported
\* differences are non-empty.
C30_InconsistentBelowOneWithDifferences ==
  ReportedInconsistent
    => (cons_call.result.consistency_score < 1000 /\ DifferencesReported)

\* C30: whenever check_consistency reports is_consistent = false together
\* with a story added, removed or significantly changed, the reported
\* consistency_score is strictly below 1.0; a check that reports
\* is_consistent = true reports the score 1.0.
C30_DifferencesBelowOne ==
  /\ (ReportedInconsistent /\ DifferencesReported) => cons_call.result.consistency_score < 1000
  /\ (cons_call.op = "check_consistency" /\ "result" \in DOMAIN cons_call
        /\ cons_call.result.is_consistent) => cons_call.result.consistency_score = 1000

\* a check against a cached run of the same story whose text was rewritten:
\* reported inconsistent, one story significantly changed, none added or
\* removed, the score below 1.0
C30_Witness ==
  /\ ReportedInconsistent
  /\ cons_call.result.differences.added_stories = 0
  /\ cons_call.result.differences.removed_stories = 0
  /\ Cardinality(cons_call.result.differences.changed_stories) = 1
  /\ cons_call.result.consistency_score < 1000

====
